---------------------------- MODULE Spec2Model ----------------------------
(***************************************************************************)
(* Model of the lexical normalisation engine of the Anki deck generator:   *)
(* the Reading Aligner (japanese.rs), the source adapters and the merge    *)
(* engine (dict/...), the reduction of the lexicon to one record for each  *)
(* kanji-only spelling (bin/dictionary.rs) and the patterns that find a    *)
(* word in an example sentence (bin/example.rs).                           *)
(*                                                                         *)
(* A character is its Unicode scalar value and a string is a sequence of   *)
(* characters, so that the katakana/hiragana folding, the bracket notation *)
(* and the regular expressions act on the characters the code acts on.     *)
(***************************************************************************)
EXTENDS Integers, Sequences, FiniteSets, TLC

(***************************************************************************)
(* Bounds of the model.                                                    *)
(***************************************************************************)
\* longest kanji spelling of the enumerated aligner inputs
MaxKanjiLen == 3
\* longest kana reading of the enumerated aligner inputs
MaxKanaLen == 3
\* number of to_furigana calls made on the same inputs
MaxCalls == 2
\* most entries of a list given to convert_data, the entries of KanjiDay apart
MaxEntries == 3
\* most records of a map given to filter_overlapping
MaxRecords == 3
\* most tags of a note given to get_find_regex
MaxTags == 2
\* most runs of main of bin/dictionary.rs over the same lexicon
MaxRuns == 2
\* most pages the sentence search service has for a query, most entries of a
\* page, and most calls of next() that return None
MaxPages == 2
MaxPageLen == 2
MaxNones == 2
\* most search configurations process_note is given, most entries a search
\* finds, and the largest count
MaxSearches == 2
MaxFound == 2
MaxCount == 2

(***************************************************************************)
(* Characters.                                                             *)
(***************************************************************************)
U ==
    [ tab |-> 9, newline |-> 10, space |-> 32, hyphen |-> 45, dot |-> 46,
      lbracket |-> 91, rbracket |-> 93,
      \* the syntax of the patterns of get_find_regex
      lparen |-> 40, rparen |-> 41, colon |-> 58, question |-> 63,
      backslash |-> 92,
      bar |-> 124,
      \* hiragana
      a |-> 12354, i |-> 12356, u |-> 12358, ka |-> 12363, ki |-> 12365,
      ku |-> 12367, ke |-> 12369, ko |-> 12371, se |-> 12379, so |-> 12381,
      ta |-> 12383, da |-> 12384, chi |-> 12385, ltsu |-> 12387,
      tsu |-> 12388, te |-> 12390, to |-> 12392, do |-> 12393,
      ni |-> 12395, no |-> 12398, hi |-> 12402, bi |-> 12403,
      bu |-> 12406, ma |-> 12414, mo |-> 12418, lyu |-> 12421,
      lyo |-> 12423, n |-> 12435, ji |-> 12376,
      gu |-> 12368, su |-> 12377, zu |-> 12378, dzu |-> 12389, nu |-> 12396,
      fu |-> 12405, pu |-> 12407, mu |-> 12416, ru |-> 12427,
      \* katakana
      A |-> 12450, KI |-> 12461,
      \* kanji
      ima |-> 20170, tatsu |-> 24314, kyuu |-> 24613, nichi |-> 26085,
      doku |-> 27602, kiX |-> 27671, butsu |-> 29289, toku |-> 29305 ]

\* the characters the class \s of the regex crate matches
WhiteSpace ==
    {9, 10, 11, 12, 13, 32, 133, 160, 5760, 8232, 8233, 8239, 8287, 12288}
        \cup (8192..8202)

(***************************************************************************)
(* JapaneseChar / JapaneseStr: kana folding.                               *)
(***************************************************************************)
\* char::to_hiragana: katakana U+30A1..U+30F6 moved down by 96
char_to_hiragana(c) ==
    IF c >= 12449 /\ c <= 12534 THEN c - 96 ELSE c

\* str::to_hiragana
to_hiragana(s) ==
    [k \in 1..Len(s) |-> char_to_hiragana(s[k])]

(***************************************************************************)
(* The regular expressions of japanese.rs, by what the regex crate does    *)
(* with them (leftmost-first: an alternation prefers its earlier           *)
(* alternative, a greedy repetition the longer match).                     *)
(***************************************************************************)
\* the string p occurs in s at position pos
IsPrefixAt(p, s, pos) ==
    /\ pos + Len(p) - 1 <= Len(s)
    /\ \A k \in 1..Len(p) : s[pos + k - 1] = p[k]

SubStr(s, from, to) ==
    [k \in 1..(to - from) |-> s[from + k - 1]]

\* a character of the class [^\s\[\]]
IsPlainChar(c) ==
    c \notin WhiteSpace /\ c # U.lbracket /\ c # U.rbracket

\* One attempt of " ?(?<kanji>[^\s\[\]]+?)\[(?<kana>[^\s\[\]]+?)\]" with the
\* kanji group starting at p: the lazy groups take the shortest runs for which
\* the rest of the pattern matches.
FuriganaPairFrom(s, p) ==
    LET ks == {k \in 1..Len(s) :
                 /\ p + k <= Len(s)
                 /\ \A x \in p..(p + k - 1) : IsPlainChar(s[x])
                 /\ s[p + k] = U.lbracket
                 /\ \E j \in 1..Len(s) :
                        /\ p + k + j + 1 <= Len(s)
                        /\ \A x \in (p + k + 1)..(p + k + j) : IsPlainChar(s[x])
                        /\ s[p + k + j + 1] = U.rbracket}
    IN  IF ks = {} THEN [ok |-> FALSE, kanji |-> <<>>, kana |-> <<>>, end |-> p]
        ELSE
          LET k == CHOOSE x \in ks : \A y \in ks : x <= y
              js == {j \in 1..Len(s) :
                       /\ p + k + j + 1 <= Len(s)
                       /\ \A x \in (p + k + 1)..(p + k + j) : IsPlainChar(s[x])
                       /\ s[p + k + j + 1] = U.rbracket}
              j == CHOOSE x \in js : \A y \in js : x <= y
          IN  [ok |-> TRUE,
               kanji |-> SubStr(s, p, p + k),
               kana |-> SubStr(s, p + k + 1, p + k + j + 1),
               end |-> p + k + j + 2]

\* A match of the pair pattern starting exactly at pos: the optional space is
\* taken first when there is one.
FuriganaPairAt(s, pos) ==
    LET with_space == FuriganaPairFrom(s, pos + 1)
    IN  IF s[pos] = U.space /\ with_space.ok THEN with_space
        ELSE FuriganaPairFrom(s, pos)

RECURSIVE ReplaceAllPairs(_, _, _)
\* Regex::replace_all with "${kana}" or "${kanji}": the leftmost matches, one
\* after the other; what no match covers is copied.
ReplaceAllPairs(s, pos, group) ==
    IF pos > Len(s) THEN <<>>
    ELSE
      LET m == FuriganaPairAt(s, pos)
      IN  IF m.ok
          THEN (IF group = "kana" THEN m.kana ELSE m.kanji)
                   \o ReplaceAllPairs(s, m.end, group)
          ELSE <<s[pos]>> \o ReplaceAllPairs(s, pos + 1, group)

\* JapaneseStr::to_kana
to_kana(s) ==
    ReplaceAllPairs(s, 1, "kana")

\* JapaneseStr::to_kanji
to_kanji(s) ==
    ReplaceAllPairs(s, 1, "kanji")

(***************************************************************************)
(* The whole-word patterns of to_furigana.  A pattern is kept as the regex *)
(* crate parses it: a sequence of capture groups, one per block, each a    *)
(* sequence of atoms; an atom is either the wildcard ".+" or an alternation*)
(* of literal strings in the order they were written.  The characters of   *)
(* the modelled inputs are kana and kanji, none of them a regex            *)
(* metacharacter, so formatting the pattern and parsing it again gives     *)
(* back these atoms.                                                       *)
(***************************************************************************)
\* "(.+)"
WildcardAtom ==
    [wild |-> TRUE, alts |-> <<>>]

\* "(" + joined + ")" for the strings joined with "|": the fold over an empty
\* set leaves the empty pattern "()", which matches the empty string
Alternation(strings) ==
    [wild |-> FALSE, alts |-> IF strings = <<>> THEN << <<>> >> ELSE strings]

NoMatch == <<0>>

RECURSIVE MatchAt(_, _, _, _, _)
RECURSIVE TryAlternatives(_, _, _, _, _, _)
RECURSIVE TryWildcard(_, _, _, _, _, _)
\* Regex::captures of "^" + groups + "$" on s, from atom a of group g at
\* position pos: the end position of every group from g on, or NoMatch.
MatchAt(groups, s, g, a, pos) ==
    IF g > Len(groups)
    THEN (IF pos = Len(s) + 1 THEN <<>> ELSE NoMatch)
    ELSE IF a > Len(groups[g])
    THEN LET rest == MatchAt(groups, s, g + 1, 1, pos)
         IN  IF rest = NoMatch THEN NoMatch ELSE <<pos>> \o rest
    ELSE IF groups[g][a].wild
    THEN TryWildcard(groups, s, g, a, pos, Len(s) + 1)
    ELSE TryAlternatives(groups, s, g, a, pos, 1)

\* the alternatives of an alternation, the earlier one first
TryAlternatives(groups, s, g, a, pos, k) ==
    LET alts == groups[g][a].alts
    IN  IF k > Len(alts) THEN NoMatch
        ELSE
          LET rest == IF IsPrefixAt(alts[k], s, pos)
                      THEN MatchAt(groups, s, g, a + 1, pos + Len(alts[k]))
                      ELSE NoMatch
          IN  IF rest # NoMatch THEN rest
              ELSE TryAlternatives(groups, s, g, a, pos, k + 1)

\* ".+", greedy: the longest run first; "." matches no line feed
TryWildcard(groups, s, g, a, pos, end) ==
    IF end <= pos THEN NoMatch
    ELSE
      LET rest == IF \A x \in pos..(end - 1) : s[x] # U.newline
                  THEN MatchAt(groups, s, g, a + 1, end)
                  ELSE NoMatch
      IN  IF rest # NoMatch THEN rest
          ELSE TryWildcard(groups, s, g, a, pos, end - 1)

\* Regex::captures: whether the pattern matched and the text of each group
Captures(groups, s) ==
    LET ends == MatchAt(groups, s, 1, 1, 1)
    IN  IF ends = NoMatch THEN [matched |-> FALSE, text |-> <<>>]
        ELSE [matched |-> TRUE,
              text |-> [g \in 1..Len(groups) |->
                          SubStr(s, IF g = 1 THEN 1 ELSE ends[g - 1], ends[g])]]

(***************************************************************************)
(* to_furigana_blocks_check and to_furigana.  A block is the tuple         *)
(* (kanji, is_kanji, kana) of the code: its text, whether it is kanji, and *)
(* its pattern.  A result is Option<String>; wildcard_index and coalesced  *)
(* record which attempt produced it.                                       *)
(***************************************************************************)
None ==
    [some |-> FALSE, out |-> <<>>, coalesced |-> FALSE, wildcard_index |-> 0]

RECURSIVE FormatBlocksSpaceAfterKanji(_, _, _, _)
\* FormatBlocks with the test of the space inverted (a space after a kanji
\* block instead of after a non-kanji block)
FormatBlocksSpaceAfterKanji(blocks, captures, k, preceded_by_kanji) ==
    IF k > Len(blocks) THEN <<>>
    ELSE
      LET block == blocks[k]
          piece == IF block.is_kanji
                   THEN (IF preceded_by_kanji /\ k > 1 THEN <<U.space>> ELSE <<>>)
                            \o block.kanji \o <<U.lbracket>> \o captures[k]
                            \o <<U.rbracket>>
                   ELSE block.kanji
      IN  piece \o FormatBlocksSpaceAfterKanji(blocks, captures, k + 1, block.is_kanji)

RECURSIVE FormatBlocks(_, _, _, _)
\* the loop that builds the furigana string from the captures
FormatBlocks(blocks, captures, k, preceded_by_kanji) ==
    IF k > Len(blocks) THEN <<>>
    ELSE
      LET block == blocks[k]
          piece == IF block.is_kanji
                   THEN (IF ~preceded_by_kanji THEN <<U.space>> ELSE <<>>)
                            \o block.kanji \o <<U.lbracket>> \o captures[k]
                            \o <<U.rbracket>>
                   ELSE block.kanji
      IN  piece \o FormatBlocks(blocks, captures, k + 1, block.is_kanji)

\* the pattern with the wildcard at wildcard_index (0: no wildcard)
WildcardPattern(blocks, wildcard_index) ==
    [k \in 1..Len(blocks) |->
        IF k = wildcard_index THEN <<WildcardAtom>> ELSE blocks[k].kana]

\* the next wildcard_index of the loop 0..=blocks.len()
NextWildcardIndex(wildcard_index) ==
    wildcard_index + 1

RECURSIVE BlocksCheckFrom(_, _, _)
\* the loop of to_furigana_blocks_check from wildcard_index on
BlocksCheckFrom(kana, blocks, wildcard_index) ==
    IF wildcard_index > Len(blocks) THEN None
    ELSE IF wildcard_index # 0 /\ ~blocks[wildcard_index].is_kanji
    THEN BlocksCheckFrom(kana, blocks, NextWildcardIndex(wildcard_index))
    ELSE
      LET captures == Captures(WildcardPattern(blocks, wildcard_index), kana)
      IN  IF captures.matched
          THEN [some |-> TRUE,
                out |-> FormatBlocks(blocks, captures.text, 1, TRUE),
                coalesced |-> FALSE,
                wildcard_index |-> wildcard_index]
          ELSE BlocksCheckFrom(kana, blocks, NextWildcardIndex(wildcard_index))

\* to_furigana_blocks_check with the loop started at 1 (no attempt without
\* a wildcard)
to_furigana_blocks_check_from_one(kana, blocks) ==
    BlocksCheckFrom(kana, blocks, 1)

to_furigana_blocks_check(kana, blocks) ==
    BlocksCheckFrom(kana, blocks, 0)

\* the blocks of the first attempt, one per character; iter[c] is the order
\* in which the HashSet of c's readings is iterated
CharBlocks(kanji, kanji_readings, iter) ==
    [k \in 1..Len(kanji) |->
        LET char == kanji[k]
        IN  IF char \in DOMAIN kanji_readings
            THEN [kanji |-> <<char>>, is_kanji |-> TRUE,
                  kana |-> <<Alternation(iter[char])>>]
            ELSE [kanji |-> <<char>>, is_kanji |-> FALSE,
                  kana |-> <<Alternation(<< <<char>> >>)>>]]

RECURSIVE GroupBlocks(_, _, _, _)
\* the fold that joins adjacent blocks of the same kind; every "(" of the
\* joined patterns becomes "(?:" and the whole is one capture group
GroupBlocks(blocks, k, out, preceded_by_kanji) ==
    IF k > Len(blocks) THEN out
    ELSE
      LET block == blocks[k]
          joined ==
            IF block.is_kanji = preceded_by_kanji
            THEN [out EXCEPT ![Len(out)] =
                    [kanji |-> @.kanji \o block.kanji,
                     is_kanji |-> @.is_kanji,
                     kana |-> @.kana \o block.kana]]
            ELSE Append(out, block)
      IN  GroupBlocks(blocks, k + 1, joined, block.is_kanji)

to_furigana(kanji, kana, kanji_readings, iter) ==
    LET blocks == CharBlocks(kanji, kanji_readings, iter)
        first == to_furigana_blocks_check(kana, blocks)
    IN  IF first.some THEN first
        ELSE IF blocks = <<>> THEN None
        ELSE
          LET grouped == GroupBlocks(blocks, 1, <<>>, ~blocks[1].is_kanji)
              second == to_furigana_blocks_check(kana, grouped)
          IN  [second EXCEPT !.coalesced = second.some]

\* the sequences that enumerate the set S once each
Enumerations(S) ==
    {e \in [1..Cardinality(S) -> S] : {e[k] : k \in 1..Cardinality(S)} = S}

\* the orders in which the reading sets of the characters of kanji can be
\* iterated (HashSet::iter promises no order)
IterOrders(kanji, kanji_readings) ==
    LET chars == {kanji[k] : k \in 1..Len(kanji)} \cap DOMAIN kanji_readings
    IN  {iter \in [chars -> UNION {Enumerations(kanji_readings[c]) : c \in chars}] :
            \A c \in chars : iter[c] \in Enumerations(kanji_readings[c])}

(***************************************************************************)
(* Kanji readings (japanese.rs, entry.rs).  An Option is a sequence: <<>>  *)
(* is None and <<v>> is Some(v).                                           *)
(***************************************************************************)
\* a character of the class [^\-. \t]
IsReadingChar(c) ==
    c \notin {U.hyphen, U.dot, U.space, U.tab}

\* where the greedy run of reading characters that starts at pos ends
RunEnd(s, pos) ==
    CHOOSE e \in pos..(Len(s) + 1) :
        /\ \A x \in pos..(e - 1) : IsReadingChar(s[x])
        /\ e = Len(s) + 1 \/ ~IsReadingChar(s[e])

\* (?<reading>[^\-. \t]+)(?:\.(?<okurigana>[^\-. \t]+))?(?:-(?<suffix>[^\-. \t]*))?$
\* matched from the position from on
ReadingFrom(s, from) ==
    LET reading_end == RunEnd(s, from)
        has_dot == reading_end <= Len(s) /\ s[reading_end] = U.dot
        okurigana_end == IF has_dot THEN RunEnd(s, reading_end + 1) ELSE reading_end
        has_hyphen == okurigana_end <= Len(s) /\ s[okurigana_end] = U.hyphen
    IN  [some |-> /\ reading_end > from
                  /\ has_dot => okurigana_end > reading_end + 1
                  /\ IF has_hyphen THEN RunEnd(s, okurigana_end + 1) = Len(s) + 1
                     ELSE okurigana_end = Len(s) + 1,
         reading |-> SubStr(s, from, reading_end),
         okurigana |-> IF has_dot
                       THEN <<SubStr(s, reading_end + 1, okurigana_end)>> ELSE <<>>,
         suffix |-> IF has_hyphen
                    THEN <<SubStr(s, okurigana_end + 1, Len(s) + 1)>> ELSE <<>>]

\* the optional group (?:(?<prefix>[^\-. \t]*)-)? is tried first with the
\* prefix, then without it
split_kanji_reading(reading) ==
    LET prefix_end == RunEnd(reading, 1)
        has_prefix == prefix_end <= Len(reading) /\ reading[prefix_end] = U.hyphen
        with_prefix == ReadingFrom(reading, prefix_end + 1)
        without_prefix == ReadingFrom(reading, 1)
    IN  IF has_prefix /\ with_prefix.some
        THEN [some |-> TRUE, prefix |-> <<SubStr(reading, 1, prefix_end)>>,
              reading |-> with_prefix.reading,
              okurigana |-> with_prefix.okurigana, suffix |-> with_prefix.suffix]
        ELSE [some |-> without_prefix.some, prefix |-> <<>>,
              reading |-> without_prefix.reading,
              okurigana |-> without_prefix.okurigana,
              suffix |-> without_prefix.suffix]

RECURSIVE split(_, _)
\* str::split: the pieces of s between the occurrences of the separator
split(s, separator) ==
    IF \A k \in 1..Len(s) : s[k] # separator THEN <<s>>
    ELSE
      LET first == CHOOSE k \in 1..Len(s) :
                     s[k] = separator /\ \A x \in 1..(k - 1) : s[x] # separator
      IN  <<SubStr(s, 1, first)>> \o split(SubStr(s, first + 1, Len(s) + 1), separator)

\* the elements of a sequence, as collect() into a HashSet gathers them
ToSet(s) ==
    {s[k] : k \in 1..Len(s)}

\* format!("JLPT-N{}", level)
JlptTag(level) ==
    "JLPT-N" \o ToString(level)

\* Kanji::readings
readings(self) ==
    {to_hiragana(split_kanji_reading(r).reading) :
        r \in {x \in self.onyomi \cup self.kunyomi : split_kanji_reading(x).some}}

(***************************************************************************)
(* The source adapters.  An entry is a record of what its accessors        *)
(* return, with the variant of the entry enum in its field shape.  The     *)
(* maps are functions; an adapter gives the set of maps it can leave, one  *)
(* for each order a HashSet is iterated in or an unstable sort leaves      *)
(* equal keys in.                                                          *)
(***************************************************************************)
KanjidicEntry_onyomi(self) ==
    ToSet(split(self.onyomi, U.space))

KanjidicEntry_kunyomi(self) ==
    ToSet(split(self.kunyomi, U.space))

KanjidicEntry_tags(self) ==
    IF self.jlpt # <<>> THEN {JlptTag(self.jlpt[1])} ELSE {}

\* KanjidicEntry::convert_kanji_data: HashMap::insert puts the new Kanji in
\* the place of the one the map held for the character
KanjidicEntry_convert_kanji_data(self, map) ==
    {(self.kanji :> [kanji |-> self.kanji,
                     onyomi |-> KanjidicEntry_onyomi(self),
                     kunyomi |-> KanjidicEntry_kunyomi(self),
                     meaning |-> meaning,
                     strokes |-> self.strokes,
                     tags |-> KanjidicEntry_tags(self)]) @@ map :
        meaning \in Enumerations(ToSet(self.meaning))}

\* the key of a word or frequency entry in the word map
EntryKey(self) ==
    <<self.kanji, self.kana>>

\* entry::Glossary::new(self.order(), self.tags(), self.glossary())
NewGlossary(self) ==
    [order |-> self.order, tags |-> self.tags, meaning |-> self.glossary]

\* the Example values made of self.example()
EntryExamples(self) ==
    ToSet(self.example)

\* the furigana of a new record, which ignores the fallback: the mutation of
\* NewFurigana
NewFuriganaWithoutBrackets(self, table, iter) ==
    LET furigana == to_furigana(self.kanji, self.kana, table, iter)
    IN  IF furigana.some THEN furigana.out ELSE self.kanji

\* the furigana of a new record: what to_furigana returns, or
\* format!("{}[{}]", self.kanji(), self.kana())
NewFurigana(self, table, iter) ==
    LET furigana == to_furigana(self.kanji, self.kana, table, iter)
    IN  IF furigana.some THEN furigana.out
        ELSE self.kanji \o <<U.lbracket>> \o self.kana \o <<U.rbracket>>

\* the injections of 1..n into itself
Orderings(n) ==
    {p \in [1..n -> 1..n] : \A x, y \in 1..n : x # y => p[x] # p[y]}

\* slice::sort_unstable_by_key, keys[k] being what the key closure returns for
\* s[k]: an arrangement of s in ascending key order, elements of equal key in
\* any order
sort_unstable_by_key(s, keys) ==
    {[k \in 1..Len(s) |-> s[p[k]]] :
        p \in {q \in Orderings(Len(s)) :
                 \A x, y \in 1..Len(s) : x < y => keys[q[x]] <= keys[q[y]]}}

\* Word::new for a word entry
NewWord(self, table, iter) ==
    [word_id |-> self.id,
     furigana |-> NewFurigana(self, table, iter),
     glossary |-> <<NewGlossary(self)>>,
     frequency |-> self.frequency,
     examples |-> EntryExamples(self)]

\* a word adapter that leaves the identifier of an existing record alone: the
\* mutation of JitendexWord_convert_word_data
JitendexWord_convert_word_data_keeps_id(self, map, table) ==
    IF EntryKey(self) \in DOMAIN map
    THEN {[map EXCEPT ![EntryKey(self)] =
             [@ EXCEPT !.glossary = Append(@, NewGlossary(self)),
                       !.frequency = @ \cup self.frequency,
                       !.examples = @ \cup EntryExamples(self)]]}
    ELSE {(EntryKey(self) :> NewWord(self, table, iter)) @@ map :
             iter \in IterOrders(self.kanji, table)}

\* JitendexWord::convert_word_data
JitendexWord_convert_word_data(self, map, table) ==
    IF EntryKey(self) \in DOMAIN map
    THEN {[map EXCEPT ![EntryKey(self)] =
             [@ EXCEPT !.word_id = self.id,
                       !.glossary = Append(@, NewGlossary(self)),
                       !.frequency = @ \cup self.frequency,
                       !.examples = @ \cup EntryExamples(self)]]}
    ELSE {(EntryKey(self) :> NewWord(self, table, iter)) @@ map :
             iter \in IterOrders(self.kanji, table)}

\* JmnedictWord::convert_word_data: as the Jitendex adapter, and the glossary
\* of an existing record is sorted by ascending order after the push
JmnedictWord_convert_word_data(self, map, table) ==
    IF EntryKey(self) \in DOMAIN map
    THEN {[map EXCEPT ![EntryKey(self)] =
             [@ EXCEPT !.word_id = self.id,
                       !.glossary = glossary,
                       !.frequency = @ \cup self.frequency,
                       !.examples = @ \cup EntryExamples(self)]] :
             glossary \in
                 LET pushed == Append(map[EntryKey(self)].glossary, NewGlossary(self))
                 IN  sort_unstable_by_key(
                         pushed, [k \in 1..Len(pushed) |-> pushed[k].order])}
    ELSE {(EntryKey(self) :> NewWord(self, table, iter)) @@ map :
             iter \in IterOrders(self.kanji, table)}

\* JmnedictFrequency::tags
JmnedictFrequency_tags(self) ==
    {JlptTag(self.jlpt)}

\* a frequency adapter that puts its tags in the place of those of an
\* existing record: the mutation of JmnedictFrequency_convert_word_data
JmnedictFrequency_convert_word_data_replaces(self, map, table) ==
    IF EntryKey(self) \in DOMAIN map
    THEN {[map EXCEPT ![EntryKey(self)] =
             [@ EXCEPT !.frequency = JmnedictFrequency_tags(self)]]}
    ELSE {(EntryKey(self) :> [word_id |-> 0,
                              furigana |-> NewFurigana(self, table, iter),
                              glossary |-> <<>>,
                              frequency |-> JmnedictFrequency_tags(self),
                              examples |-> {}]) @@ map :
             iter \in IterOrders(self.kanji, table)}

\* JmnedictFrequency::convert_word_data
JmnedictFrequency_convert_word_data(self, map, table) ==
    IF EntryKey(self) \in DOMAIN map
    THEN {[map EXCEPT ![EntryKey(self)] =
             [@ EXCEPT !.frequency = @ \cup JmnedictFrequency_tags(self)]]}
    ELSE {(EntryKey(self) :> [word_id |-> 0,
                              furigana |-> NewFurigana(self, table, iter),
                              glossary |-> <<>>,
                              frequency |-> JmnedictFrequency_tags(self),
                              examples |-> {}]) @@ map :
             iter \in IterOrders(self.kanji, table)}

\* JmnedictEntry / JitendexEntry ::convert_kanji_data: the maps the entry can
\* leave; the Err of an Unknown entry leaves the map as it is
Entry_convert_kanji_data(self, map) ==
    IF self.shape = "Kanji" THEN KanjidicEntry_convert_kanji_data(self, map)
    ELSE {map}

\* an entry enum whose convert_word_data is Ok for every variant: the
\* mutation of Entry_convert_word_data_is_err
Entry_convert_word_data_never_err(self) ==
    FALSE

\* JmnedictEntry / JitendexEntry ::convert_word_data returns Err
Entry_convert_word_data_is_err(self) ==
    self.shape = "Unknown"

\* an entry enum whose frequency variant also empties the example set of the
\* record: the mutation of Entry_convert_word_data
Entry_convert_word_data_drops_examples(T, self, map, table) ==
    CASE self.shape = "Word" /\ T = "JmnedictEntry" ->
            JmnedictWord_convert_word_data(self, map, table)
      [] self.shape = "Word" /\ T = "JitendexEntry" ->
            JitendexWord_convert_word_data(self, map, table)
      [] self.shape = "Frequency" ->
            {[m EXCEPT ![EntryKey(self)].examples = {}] :
                m \in JmnedictFrequency_convert_word_data(self, map, table)}
      [] OTHER -> {map}

\* JmnedictEntry / JitendexEntry ::convert_word_data: the maps the entry can
\* leave; T is the entry enum of the list
Entry_convert_word_data(T, self, map, table) ==
    CASE self.shape = "Word" /\ T = "JmnedictEntry" ->
            JmnedictWord_convert_word_data(self, map, table)
      [] self.shape = "Word" /\ T = "JitendexEntry" ->
            JitendexWord_convert_word_data(self, map, table)
      [] self.shape = "Frequency" ->
            JmnedictFrequency_convert_word_data(self, map, table)
      [] OTHER -> {map}

(***************************************************************************)
(* 32-bit arithmetic of the final glossary sort (dict_parser.rs).          *)
(***************************************************************************)
MinI32 ==
    -2147483647 - 1

\* -x with overflow checks off: the negation wraps
wrapping_neg(x) ==
    IF x = MinI32 THEN MinI32 ELSE -x

\* the sort of a glossary calls its key closure when there are two elements
\* to compare, and the closure overflows on the order i32::MIN
SortOverflows(glossary) ==
    Len(glossary) >= 2 /\ \E k \in 1..Len(glossary) : glossary[k].order = MinI32

\* for (_, word) in words.iter_mut() { word.glossary.sort_unstable_by_key(|d| -d.order) }
SortedGlossaries(map) ==
    LET sorted == [key \in DOMAIN map |->
                      sort_unstable_by_key(
                          map[key].glossary,
                          [k \in 1..Len(map[key].glossary) |->
                              wrapping_neg(map[key].glossary[k].order)])]
    IN  {[key \in DOMAIN map |-> [map[key] EXCEPT !.glossary = choice[key]]] :
            choice \in {c \in [DOMAIN map -> UNION {sorted[key] : key \in DOMAIN map}] :
                          \A key \in DOMAIN map : c[key] \in sorted[key]}}

\* words.into_values().map(|word| (word.furigana.clone(), word)).collect():
\* of the records of one furigana the map keeps the one iterated last
RekeyedByFurigana(map) ==
    LET furiganas == {map[key].furigana : key \in DOMAIN map}
        records == {map[key] : key \in DOMAIN map}
    IN  {m \in [furiganas -> records] : \A f \in furiganas : m[f].furigana = f}

(***************************************************************************)
(* Canonicalization (bin/dictionary.rs): of the records that have the same *)
(* kanji-only spelling, filter_overlapping keeps one.                      *)
(***************************************************************************)
\* u8::MAX, what a record without a news tag is ranked
U8Max == 255

\* i32::MAX, the least order of a record without glossary
MaxI32 == 2147483647

\* Word::get_all_tags
get_all_tags(word) ==
    word.frequency \cup UNION {word.glossary[k].tags : k \in 1..Len(word.glossary)}

\* Iterator::min: Some of the least element, None of no element
Min(S) ==
    IF S = {} THEN <<>> ELSE <<CHOOSE x \in S : \A y \in S : x <= y>>

\* Option::unwrap_or
unwrap_or(option, default) ==
    IF option = <<>> THEN default ELSE option[1]

\* Ord::cmp
cmp(a, b) ==
    IF a < b THEN "Less" ELSE IF a = b THEN "Equal" ELSE "Greater"

\* the tags that match ^news(\d+)k$ and whose digits parse as a u8 (leading
\* zeros apart), and for each the number parse::<u8> gives
ParsedNewsRank ==
    LET NewsTag(n) == "news" \o ToString(n) \o "k"
    IN  [tag \in {NewsTag(n) : n \in 0..U8Max} |->
            CHOOSE n \in 0..U8Max : NewsTag(n) = tag]

\* get_newsnk: the least n of the tags news<n>k whose n parses as a u8
get_newsnk(note) ==
    Min({ParsedNewsRank[tag] : tag \in get_all_tags(note) \cap DOMAIN ParsedNewsRank})

\* get_jlpt_level giving the levels the other way round, N1 as 5 and N5 as 1
get_jlpt_level_reversed(note) ==
    LET tags == get_all_tags(note)
    IN  IF "JLPT-N1" \in tags THEN <<5>>
        ELSE IF "JLPT-N2" \in tags THEN <<4>>
        ELSE IF "JLPT-N3" \in tags THEN <<3>>
        ELSE IF "JLPT-N4" \in tags THEN <<2>>
        ELSE IF "JLPT-N5" \in tags THEN <<1>>
        ELSE <<>>

\* get_jlpt_level
get_jlpt_level(note) ==
    LET tags == get_all_tags(note)
    IN  IF "JLPT-N1" \in tags THEN <<1>>
        ELSE IF "JLPT-N2" \in tags THEN <<2>>
        ELSE IF "JLPT-N3" \in tags THEN <<3>>
        ELSE IF "JLPT-N4" \in tags THEN <<4>>
        ELSE IF "JLPT-N5" \in tags THEN <<5>>
        ELSE <<>>

\* the five orderings with the operands of the example comparison exchanged
Comparison_fewer_examples(value1, value2) ==
    [jlpt |-> cmp(unwrap_or(get_jlpt_level(value1), 0),
                  unwrap_or(get_jlpt_level(value2), 0)),
     news |-> cmp(unwrap_or(get_newsnk(value2), U8Max),
                  unwrap_or(get_newsnk(value1), U8Max)),
     example |-> cmp(Cardinality(value2.examples), Cardinality(value1.examples)),
     len |-> cmp(Len(value1.glossary), Len(value2.glossary)),
     freq |-> cmp(unwrap_or(Min({value1.glossary[k].order :
                                   k \in 1..Len(value1.glossary)}), MaxI32),
                  unwrap_or(Min({value2.glossary[k].order :
                                   k \in 1..Len(value2.glossary)}), MaxI32))]

\* the five orderings filter_overlapping compares value1, the record it is
\* at, with value2, the record out holds for the key
Comparison(value1, value2) ==
    [jlpt |-> cmp(unwrap_or(get_jlpt_level(value1), 0),
                  unwrap_or(get_jlpt_level(value2), 0)),
     news |-> cmp(unwrap_or(get_newsnk(value2), U8Max),
                  unwrap_or(get_newsnk(value1), U8Max)),
     example |-> cmp(Cardinality(value1.examples), Cardinality(value2.examples)),
     len |-> cmp(Len(value1.glossary), Len(value2.glossary)),
     freq |-> cmp(unwrap_or(Min({value1.glossary[k].order :
                                   k \in 1..Len(value1.glossary)}), MaxI32),
                  unwrap_or(Min({value2.glossary[k].order :
                                   k \in 1..Len(value2.glossary)}), MaxI32))]

\* the arm of the match with one more pattern, of five Equal orderings
IsReplaced_on_equal(c) ==
    \/ c.jlpt = "Greater"
    \/ c.jlpt = "Equal" /\ c.news = "Greater"
    \/ c.jlpt = "Equal" /\ c.news = "Equal" /\ c.example = "Greater"
    \/ c.jlpt = "Equal" /\ c.news = "Equal" /\ c.example = "Equal"
         /\ c.len = "Greater"
    \/ c.jlpt = "Equal" /\ c.news = "Equal" /\ c.example = "Equal"
         /\ c.len = "Equal" /\ c.freq \in {"Greater", "Equal"}

\* the arm of the match that puts value1 in the place of value2
IsReplaced(c) ==
    \/ c.jlpt = "Greater"
    \/ c.jlpt = "Equal" /\ c.news = "Greater"
    \/ c.jlpt = "Equal" /\ c.news = "Equal" /\ c.example = "Greater"
    \/ c.jlpt = "Equal" /\ c.news = "Equal" /\ c.example = "Equal"
         /\ c.len = "Greater"
    \/ c.jlpt = "Equal" /\ c.news = "Equal" /\ c.example = "Equal"
         /\ c.len = "Equal" /\ c.freq = "Greater"

\* one iteration of a loop that folds the examples of the record it puts out
\* of the map into the record it puts in
FilterEntry_merges(out_map, key, value1) ==
    LET kanji_key == to_kanji(key)
    IN  IF kanji_key \in DOMAIN out_map
        THEN IF IsReplaced(Comparison(value1, out_map[kanji_key]))
             THEN [out_map EXCEPT ![kanji_key] =
                      [value1 EXCEPT !.examples = @ \cup out_map[kanji_key].examples]]
             ELSE out_map
        ELSE (kanji_key :> value1) @@ out_map

\* one iteration of the loop of filter_overlapping: the map out after the
\* entry (key, value1)
FilterEntry(out_map, key, value1) ==
    LET kanji_key == to_kanji(key)
    IN  IF kanji_key \in DOMAIN out_map
        THEN IF IsReplaced(Comparison(value1, out_map[kanji_key]))
             THEN [out_map EXCEPT ![kanji_key] = value1]
             ELSE out_map
        ELSE (kanji_key :> value1) @@ out_map

(***************************************************************************)
(* The patterns of get_find_regex (bin/example.rs), by what the regex      *)
(* crate does with them.  A pattern is the string format! builds; of the   *)
(* syntax of the crate the patterns use a literal character, an escaped    *)
(* character "\c", a class "[...]", a group "(?:...)", an alternation "|"  *)
(* and "?" after an atom.  The search is leftmost-first: an alternation    *)
(* prefers its earlier alternative and "?" prefers to take its atom.       *)
(***************************************************************************)
RECURSIVE JoinAll(_)
\* the concatenation of the sequences of a sequence
JoinAll(seqs) ==
    IF seqs = <<>> THEN <<>> ELSE Head(seqs) \o JoinAll(Tail(seqs))

RECURSIVE AtomEnd(_, _)
RECURSIVE SkipConcat(_, _)
RECURSIVE SkipAlternation(_, _)
\* the index after the atom of the pattern re that begins at index i
AtomEnd(re, i) ==
    IF re[i] = U.backslash THEN i + 2
    ELSE IF re[i] = U.lbracket
    THEN 1 + CHOOSE j \in (i + 1)..Len(re) :
                 /\ re[j] = U.rbracket
                 /\ \A x \in (i + 1)..(j - 1) : re[x] # U.rbracket
    ELSE IF re[i] = U.lparen
    THEN 1 + SkipAlternation(re, i + 3)
    ELSE i + 1

\* the index of the "|" or ")" that ends the concatenation that begins at
\* index i, or the index after the pattern
SkipConcat(re, i) ==
    IF i > Len(re) \/ re[i] \in {U.bar, U.rparen} THEN i
    ELSE SkipConcat(re, AtomEnd(re, i))

\* the index of the ")" that ends the alternation that begins at index i, or
\* the index after the pattern
SkipAlternation(re, i) ==
    LET j == SkipConcat(re, i)
    IN  IF j <= Len(re) /\ re[j] = U.bar THEN SkipAlternation(re, j + 1) ELSE j

RECURSIVE AtomEnds(_, _, _, _)
RECURSIVE ConcatEnds(_, _, _, _)
RECURSIVE AlternationEnds(_, _, _, _)
\* where a match of the atom at index i of re that begins at position p of s
\* can end, in the order the search prefers
AtomEnds(re, i, s, p) ==
    IF re[i] = U.lparen THEN AlternationEnds(re, i + 3, s, p)
    ELSE IF p > Len(s) THEN <<>>
    ELSE IF re[i] = U.backslash
    THEN (IF s[p] = re[i + 1] THEN <<p + 1>> ELSE <<>>)
    ELSE IF re[i] = U.lbracket
    THEN (IF \E j \in (i + 1)..(AtomEnd(re, i) - 2) : s[p] = re[j]
          THEN <<p + 1>> ELSE <<>>)
    ELSE (IF s[p] = re[i] THEN <<p + 1>> ELSE <<>>)

\* the same for the concatenation that begins at index i of re
ConcatEnds(re, i, s, p) ==
    IF i > Len(re) \/ re[i] \in {U.bar, U.rparen} THEN <<p>>
    ELSE
      LET after == AtomEnd(re, i)
          optional == after <= Len(re) /\ re[after] = U.question
          next == IF optional THEN after + 1 ELSE after
          taken == AtomEnds(re, i, s, p)
          ends == IF optional THEN taken \o <<p>> ELSE taken
      IN  JoinAll([k \in 1..Len(ends) |-> ConcatEnds(re, next, s, ends[k])])

\* the same for the alternation that begins at index i of re
AlternationEnds(re, i, s, p) ==
    LET j == SkipConcat(re, i)
    IN  ConcatEnds(re, i, s, p)
            \o (IF j <= Len(re) /\ re[j] = U.bar
                THEN AlternationEnds(re, j + 1, s, p)
                ELSE <<>>)

\* Regex::find: the leftmost match of re in s, of the matches that begin
\* there the one the search prefers; None if there is no match
find(re, s) ==
    LET starts == {p \in 1..(Len(s) + 1) : AlternationEnds(re, 1, s, p) # <<>>}
    IN  IF starts = {} THEN <<>>
        ELSE LET start == CHOOSE p \in starts : \A q \in starts : p <= q
             IN  <<[start |-> start, end |-> AlternationEnds(re, 1, s, start)[1]]>>

(***************************************************************************)
(* The string literals of get_find_regex (bin/example.rs), character by    *)
(* character.                                                              *)
(***************************************************************************)
\* what the pattern of IAdjective puts after {stem} (example.rs line 343): (?:くありませんでした|くないでしょう|くない ... う|くない|いです|かった|ければ|い)
IAdjective_suffixes ==
    <<40, 63, 58, 12367, 12354, 12426, 12414, 12379, 12435, 12391, 12375, 12383,
      124, 12367, 12394, 12356, 12391, 12375, 12423, 12358, 124, 12367, 12394, 12356,
      12384, 12429, 12358, 124, 12367, 12354, 12426, 12414, 12379, 12435, 124, 12367,
      12394, 12363, 12387, 12383, 124, 12356, 12391, 12375, 12423, 12358, 124, 12363,
      12387, 12383, 12391, 12377, 124, 12367, 12394, 12369, 12428, 12400, 124, 12356,
      12384, 12429, 12358, 124, 12367, 12394, 12356, 124, 12356, 12391, 12377, 124,
      12363, 12387, 12383, 124, 12369, 12428, 12400, 124, 12356, 41>>

\* the pattern of IxAdjective (example.rs line 344): (?: ?良[よ]|良|よ)くありませんでした| ... ?良[よ]|良|よ)くて|いいです|いい
IxAdjective_pattern ==
    <<40, 63, 58, 32, 63, 33391, 91, 12424, 93, 124, 33391, 124,
      12424, 41, 12367, 12354, 12426, 12414, 12379, 12435, 12391, 12375, 12383, 124,
      40, 63, 58, 32, 63, 33391, 91, 12424, 93, 124, 33391, 124,
      12424, 41, 12367, 12354, 12426, 12414, 12379, 12435, 124, 40, 63, 58,
      32, 63, 33391, 91, 12424, 93, 124, 33391, 124, 12424, 41, 12367,
      12394, 12363, 12387, 12383, 124, 40, 63, 58, 32, 63, 33391, 91,
      12424, 93, 124, 33391, 124, 12424, 41, 12363, 12387, 12383, 12391, 12377,
      124, 40, 63, 58, 32, 63, 33391, 91, 12424, 93, 124, 33391,
      124, 12424, 41, 12369, 12428, 12400, 124, 40, 63, 58, 32, 63,
      33391, 91, 12424, 93, 124, 33391, 124, 12424, 41, 12363, 12387, 12383,
      124, 40, 63, 58, 32, 63, 33391, 91, 12424, 93, 124, 33391,
      124, 12424, 41, 12367, 12394, 12356, 124, 40, 63, 58, 32, 63,
      33391, 91, 12424, 93, 124, 33391, 124, 12424, 41, 12367, 12390, 124,
      12356, 12356, 12391, 12377, 124, 12356, 12356>>

\* what the pattern of NaAdjective puts after {word} (example.rs line 345): (?:ではありませんでした|ではありません|では ... は|なら|なり|なる|で|だ|に|な|)
NaAdjective_suffixes ==
    <<40, 63, 58, 12391, 12399, 12354, 12426, 12414, 12379, 12435, 12391, 12375,
      12383, 124, 12391, 12399, 12354, 12426, 12414, 12379, 12435, 124, 12391, 12399,
      12394, 12363, 12387, 12383, 124, 12391, 12399, 12394, 12356, 124, 12384, 12387,
      12383, 124, 12391, 12375, 12383, 124, 12391, 12354, 12428, 124, 12391, 12377,
      124, 12394, 12428, 124, 12384, 12429, 124, 12391, 12399, 124, 12394, 12425,
      124, 12394, 12426, 124, 12394, 12427, 124, 12391, 124, 12384, 124, 12395,
      124, 12394, 124, 41>>

\* what the pattern of Ichidan puts after {stem} (example.rs line 346): (?:ていませんでした|なかったでしょう|ません ... い|たら|よう|ます|るな|る|た|ろ)
Ichidan_suffixes ==
    <<40, 63, 58, 12390, 12356, 12414, 12379, 12435, 12391, 12375, 12383, 124,
      12394, 12363, 12387, 12383, 12391, 12375, 12423, 12358, 124, 12414, 12379, 12435,
      12391, 12375, 12383, 12425, 124, 12394, 12363, 12387, 12383, 12384, 12429, 12358,
      124, 12394, 12356, 12391, 12367, 12384, 12373, 12356, 124, 12394, 12356, 12391,
      12375, 12423, 12358, 124, 12414, 12379, 12435, 12391, 12375, 12383, 124, 12394,
      12356, 12384, 12429, 12358, 124, 12390, 12367, 12384, 12373, 12356, 124, 12373,
      12379, 12414, 12379, 12435, 124, 12383, 12391, 12375, 12423, 12358, 124, 12390,
      12356, 12414, 12375, 12383, 124, 12390, 12356, 12414, 12379, 12435, 124, 12394,
      12363, 12387, 12383, 12425, 124, 12425, 12428, 12414, 12379, 12435, 124, 12425,
      12428, 12414, 12379, 12435, 124, 12427, 12391, 12375, 12423, 12358, 124, 12425,
      12428, 12414, 12377, 124, 12425, 12428, 12394, 12356, 124, 12373, 12379, 12394,
      12356, 124, 12390, 12356, 12414, 12377, 124, 12427, 12384, 12429, 12358, 124,
      12383, 12384, 12429, 12358, 124, 12394, 12363, 12387, 12383, 124, 12414, 12375,
      12423, 12358, 124, 12394, 12369, 12428, 12400, 124, 12425, 12428, 12414, 12377,
      124, 12425, 12428, 12394, 12356, 124, 12373, 12379, 12414, 12377, 124, 12414,
      12375, 12383, 12425, 124, 12390, 12356, 12427, 124, 12390, 12356, 12383, 124,
      12414, 12379, 12435, 124, 12414, 12375, 12383, 124, 12373, 12379, 12427, 124,
      12383, 12429, 12358, 124, 12425, 12428, 12427, 124, 12425, 12428, 12427, 124,
      12428, 12400, 124, 12394, 12356, 124, 12383, 12425, 124, 12424, 12358, 124,
      12414, 12377, 124, 12427, 12394, 124, 12427, 124, 12383, 124, 12429, 41>>

\* the arm 'う' of the match on end (example.rs line 349): らなかったでしょう|っていませんでした|らなかっ ... い|るな|れば|ろう|った|れる|れ|る
Godan_end_u ==
    <<12425, 12394, 12363, 12387, 12383, 12391, 12375, 12423, 12358, 124, 12387, 12390,
      12356, 12414, 12379, 12435, 12391, 12375, 12383, 124, 12425, 12394, 12363, 12387,
      12383, 12384, 12429, 12358, 124, 12426, 12414, 12379, 12435, 12391, 12375, 12383,
      12425, 124, 12425, 12394, 12356, 12391, 12367, 12384, 12373, 12356, 124, 12426,
      12414, 12379, 12435, 12391, 12375, 12383, 124, 12425, 12394, 12356, 12391, 12375,
      12423, 12358, 124, 12387, 12390, 12356, 12414, 12375, 12383, 124, 12387, 12390,
      12356, 12414, 12379, 12435, 124, 12425, 12394, 12363, 12387, 12383, 12425, 124,
      12387, 12383, 12391, 12375, 12423, 12358, 124, 12425, 12394, 12356, 12384, 12429,
      12358, 124, 12387, 12390, 12367, 12384, 12373, 12356, 124, 12425, 12394, 12369,
      12428, 12400, 124, 12425, 12394, 12363, 12387, 12383, 124, 12425, 12428, 12414,
      12379, 12435, 124, 12425, 12379, 12414, 12379, 12435, 124, 12427, 12391, 12375,
      12423, 12358, 124, 12387, 12390, 12356, 12414, 12377, 124, 12387, 12383, 12384,
      12429, 12358, 124, 12426, 12414, 12375, 12383, 12425, 124, 12426, 12414, 12375,
      12423, 12358, 124, 12387, 12390, 12356, 12383, 124, 12387, 12390, 12356, 12427,
      124, 12425, 12379, 12394, 12356, 124, 12425, 12379, 12414, 12377, 124, 12425,
      12428, 12394, 12356, 124, 12426, 12414, 12375, 12383, 124, 12426, 12414, 12379,
      12435, 124, 12428, 12414, 12379, 12435, 124, 12427, 12384, 12429, 12358, 124,
      12425, 12428, 12414, 12377, 124, 12425, 12428, 12394, 12356, 124, 12425, 12428,
      12414, 12377, 124, 12425, 12379, 12427, 124, 12428, 12414, 12377, 124, 12425,
      12428, 12427, 124, 12387, 12383, 12425, 124, 12425, 12394, 12356, 124, 12426,
      12414, 12377, 124, 12428, 12394, 12356, 124, 12427, 12394, 124, 12428, 12400,
      124, 12429, 12358, 124, 12387, 12383, 124, 12428, 12427, 124, 12428, 124,
      12427>>

\* the arm 'く' of the match on end (example.rs line 350): いていませんでした|かなかったでしょう|きません ... い|いた|こう|ける|くな|けば|く|け
Godan_end_ku ==
    <<12356, 12390, 12356, 12414, 12379, 12435, 12391, 12375, 12383, 124, 12363, 12394,
      12363, 12387, 12383, 12391, 12375, 12423, 12358, 124, 12365, 12414, 12379, 12435,
      12391, 12375, 12383, 12425, 124, 12363, 12394, 12363, 12387, 12383, 12384, 12429,
      12358, 124, 12363, 12394, 12356, 12391, 12367, 12384, 12373, 12356, 124, 12363,
      12394, 12356, 12391, 12375, 12423, 12358, 124, 12365, 12414, 12379, 12435, 12391,
      12375, 12383, 124, 12356, 12383, 12391, 12375, 12423, 12358, 124, 12356, 12390,
      12356, 12414, 12375, 12383, 124, 12356, 12390, 12367, 12384, 12373, 12356, 124,
      12363, 12394, 12356, 12384, 12429, 12358, 124, 12356, 12390, 12356, 12414, 12379,
      12435, 124, 12363, 12394, 12363, 12387, 12383, 12425, 124, 12367, 12391, 12375,
      12423, 12358, 124, 12356, 12390, 12356, 12414, 12377, 124, 12363, 12394, 12369,
      12428, 12400, 124, 12363, 12394, 12363, 12387, 12383, 124, 12363, 12428, 12414,
      12379, 12435, 124, 12356, 12383, 12384, 12429, 12358, 124, 12363, 12379, 12414,
      12379, 12435, 124, 12365, 12414, 12375, 12423, 12358, 124, 12365, 12414, 12375,
      12383, 12425, 124, 12369, 12414, 12379, 12435, 124, 12356, 12390, 12356, 12427,
      124, 12363, 12379, 12394, 12356, 124, 12356, 12390, 12356, 12383, 124, 12365,
      12414, 12375, 12383, 124, 12367, 12384, 12429, 12358, 124, 12365, 12414, 12379,
      12435, 124, 12363, 12428, 12414, 12377, 124, 12363, 12379, 12414, 12377, 124,
      12363, 12428, 12394, 12356, 124, 12356, 12383, 12425, 124, 12369, 12414, 12377,
      124, 12369, 12394, 12356, 124, 12363, 12379, 12427, 124, 12363, 12428, 12427,
      124, 12365, 12414, 12377, 124, 12363, 12394, 12356, 124, 12356, 12383, 124,
      12371, 12358, 124, 12369, 12427, 124, 12367, 12394, 124, 12369, 12400, 124,
      12367, 124, 12369>>

\* the arm 'す' of the match on end (example.rs line 351): していませんでした|さなかったでしょう|しません ... い|せば|そう|すな|した|せる|せ|す
Godan_end_su ==
    <<12375, 12390, 12356, 12414, 12379, 12435, 12391, 12375, 12383, 124, 12373, 12394,
      12363, 12387, 12383, 12391, 12375, 12423, 12358, 124, 12375, 12414, 12379, 12435,
      12391, 12375, 12383, 12425, 124, 12373, 12394, 12363, 12387, 12383, 12384, 12429,
      12358, 124, 12373, 12394, 12356, 12391, 12367, 12384, 12373, 12356, 124, 12375,
      12414, 12379, 12435, 12391, 12375, 12383, 124, 12373, 12394, 12356, 12391, 12375,
      12423, 12358, 124, 12375, 12390, 12367, 12384, 12373, 12356, 124, 12375, 12383,
      12391, 12375, 12423, 12358, 124, 12375, 12390, 12356, 12414, 12379, 12435, 124,
      12373, 12394, 12356, 12384, 12429, 12358, 124, 12373, 12394, 12363, 12387, 12383,
      12425, 124, 12375, 12390, 12356, 12414, 12375, 12383, 124, 12375, 12383, 12384,
      12429, 12358, 124, 12377, 12391, 12375, 12423, 12358, 124, 12373, 12394, 12363,
      12387, 12383, 124, 12375, 12390, 12356, 12414, 12377, 124, 12373, 12428, 12414,
      12379, 12435, 124, 12375, 12414, 12375, 12423, 12358, 124, 12373, 12394, 12369,
      12428, 12400, 124, 12373, 12379, 12414, 12379, 12435, 124, 12375, 12414, 12375,
      12383, 12425, 124, 12379, 12414, 12379, 12435, 124, 12373, 12428, 12414, 12377,
      124, 12373, 12428, 12394, 12356, 124, 12375, 12390, 12356, 12383, 124, 12377,
      12384, 12429, 12358, 124, 12375, 12414, 12375, 12383, 124, 12375, 12414, 12379,
      12435, 124, 12375, 12390, 12356, 12427, 124, 12373, 12379, 12414, 12377, 124,
      12373, 12394, 12356, 124, 12379, 12414, 12377, 124, 12373, 12379, 12427, 124,
      12373, 12394, 12356, 124, 12373, 12428, 12427, 124, 12375, 12414, 12377, 124,
      12375, 12383, 12425, 124, 12379, 12394, 12356, 124, 12379, 12400, 124, 12381,
      12358, 124, 12377, 12394, 124, 12375, 12383, 124, 12379, 12427, 124, 12379,
      124, 12377>>

\* the arm 'つ' of the match on end (example.rs line 352): っていませんでした|たなかったでしょう|たないで ... ら|つな|てば|った|てる|とう|て|つ
Godan_end_tsu ==
    <<12387, 12390, 12356, 12414, 12379, 12435, 12391, 12375, 12383, 124, 12383, 12394,
      12363, 12387, 12383, 12391, 12375, 12423, 12358, 124, 12383, 12394, 12356, 12391,
      12367, 12384, 12373, 12356, 124, 12385, 12414, 12379, 12435, 12391, 12375, 12383,
      12425, 124, 12383, 12394, 12363, 12387, 12383, 12384, 12429, 12358, 124, 12383,
      12394, 12356, 12391, 12375, 12423, 12358, 124, 12385, 12414, 12379, 12435, 12391,
      12375, 12383, 124, 12383, 12394, 12363, 12387, 12383, 12425, 124, 12387, 12390,
      12356, 12414, 12379, 12435, 124, 12387, 12383, 12391, 12375, 12423, 12358, 124,
      12387, 12390, 12367, 12384, 12373, 12356, 124, 12387, 12390, 12356, 12414, 12375,
      12383, 124, 12383, 12394, 12356, 12384, 12429, 12358, 124, 12387, 12383, 12384,
      12429, 12358, 124, 12385, 12414, 12375, 12383, 12425, 124, 12383, 12428, 12414,
      12379, 12435, 124, 12383, 12394, 12369, 12428, 12400, 124, 12383, 12379, 12414,
      12379, 12435, 124, 12383, 12394, 12363, 12387, 12383, 124, 12385, 12414, 12375,
      12423, 12358, 124, 12388, 12391, 12375, 12423, 12358, 124, 12387, 12390, 12356,
      12414, 12377, 124, 12383, 12428, 12414, 12377, 124, 12385, 12414, 12375, 12383,
      124, 12383, 12428, 12394, 12356, 124, 12390, 12414, 12379, 12435, 124, 12383,
      12379, 12414, 12377, 124, 12388, 12384, 12429, 12358, 124, 12387, 12390, 12356,
      12427, 124, 12385, 12414, 12379, 12435, 124, 12383, 12379, 12394, 12356, 124,
      12387, 12390, 12356, 12383, 124, 12390, 12414, 12377, 124, 12385, 12414, 12377,
      124, 12383, 12379, 12427, 124, 12383, 12428, 12427, 124, 12383, 12394, 12356,
      124, 12390, 12394, 12356, 124, 12387, 12383, 12425, 124, 12388, 12394, 124,
      12390, 12400, 124, 12387, 12383, 124, 12390, 12427, 124, 12392, 12358, 124,
      12390, 124, 12388>>

\* the arm 'ぬ' of the match on end (example.rs line 353): んでいませんでした|ななかったでしょう|にません ... る|ねば|んだ|ぬな|のう|ねる|ぬ|ね
Godan_end_nu ==
    <<12435, 12391, 12356, 12414, 12379, 12435, 12391, 12375, 12383, 124, 12394, 12394,
      12363, 12387, 12383, 12391, 12375, 12423, 12358, 124, 12395, 12414, 12379, 12435,
      12391, 12375, 12383, 12425, 124, 12394, 12394, 12363, 12387, 12383, 12384, 12429,
      12358, 124, 12394, 12394, 12356, 12391, 12367, 12384, 12373, 12356, 124, 12394,
      12394, 12356, 12391, 12375, 12423, 12358, 124, 12395, 12414, 12379, 12435, 12391,
      12375, 12383, 124, 12435, 12391, 12356, 12414, 12379, 12435, 124, 12394, 12394,
      12363, 12387, 12383, 12425, 124, 12435, 12391, 12367, 12384, 12373, 12356, 124,
      12394, 12394, 12356, 12384, 12429, 12358, 124, 12435, 12391, 12356, 12414, 12375,
      12383, 124, 12435, 12384, 12391, 12375, 12423, 12358, 124, 12394, 12428, 12414,
      12379, 12435, 124, 12395, 12414, 12375, 12383, 12425, 124, 12435, 12391, 12356,
      12414, 12377, 124, 12394, 12394, 12369, 12428, 12400, 124, 12394, 12379, 12414,
      12379, 12435, 124, 12394, 12394, 12363, 12387, 12383, 124, 12395, 12414, 12375,
      12423, 12358, 124, 12435, 12384, 12384, 12429, 12358, 124, 12396, 12391, 12375,
      12423, 12358, 124, 12395, 12414, 12375, 12383, 124, 12435, 12391, 12356, 12427,
      124, 12394, 12428, 12414, 12377, 124, 12394, 12428, 12394, 12356, 124, 12397,
      12414, 12379, 12435, 124, 12394, 12379, 12414, 12377, 124, 12435, 12391, 12356,
      12383, 124, 12394, 12379, 12394, 12356, 124, 12395, 12414, 12379, 12435, 124,
      12396, 12384, 12429, 12358, 124, 12397, 12414, 12377, 124, 12394, 12394, 12356,
      124, 12394, 12428, 12427, 124, 12397, 12394, 12356, 124, 12435, 12384, 12425,
      124, 12395, 12414, 12377, 124, 12394, 12379, 12427, 124, 12397, 12400, 124,
      12435, 12384, 124, 12396, 12394, 124, 12398, 12358, 124, 12397, 12427, 124,
      12396, 124, 12397>>

\* the arm 'む' of the match on end (example.rs line 354): んでいませんでした|まなかったでしょう|みません ... る|めば|んだ|むな|もう|める|む|め
Godan_end_mu ==
    <<12435, 12391, 12356, 12414, 12379, 12435, 12391, 12375, 12383, 124, 12414, 12394,
      12363, 12387, 12383, 12391, 12375, 12423, 12358, 124, 12415, 12414, 12379, 12435,
      12391, 12375, 12383, 12425, 124, 12414, 12394, 12363, 12387, 12383, 12384, 12429,
      12358, 124, 12414, 12394, 12356, 12391, 12367, 12384, 12373, 12356, 124, 12414,
      12394, 12356, 12391, 12375, 12423, 12358, 124, 12415, 12414, 12379, 12435, 12391,
      12375, 12383, 124, 12435, 12391, 12356, 12414, 12379, 12435, 124, 12414, 12394,
      12363, 12387, 12383, 12425, 124, 12435, 12391, 12367, 12384, 12373, 12356, 124,
      12414, 12394, 12356, 12384, 12429, 12358, 124, 12435, 12391, 12356, 12414, 12375,
      12383, 124, 12435, 12384, 12391, 12375, 12423, 12358, 124, 12414, 12428, 12414,
      12379, 12435, 124, 12415, 12414, 12375, 12383, 12425, 124, 12435, 12391, 12356,
      12414, 12377, 124, 12414, 12394, 12369, 12428, 12400, 124, 12414, 12379, 12414,
      12379, 12435, 124, 12414, 12394, 12363, 12387, 12383, 124, 12415, 12414, 12375,
      12423, 12358, 124, 12435, 12384, 12384, 12429, 12358, 124, 12416, 12391, 12375,
      12423, 12358, 124, 12415, 12414, 12375, 12383, 124, 12435, 12391, 12356, 12427,
      124, 12414, 12428, 12414, 12377, 124, 12414, 12428, 12394, 12356, 124, 12417,
      12414, 12379, 12435, 124, 12414, 12379, 12414, 12377, 124, 12435, 12391, 12356,
      12383, 124, 12414, 12379, 12394, 12356, 124, 12415, 12414, 12379, 12435, 124,
      12416, 12384, 12429, 12358, 124, 12417, 12414, 12377, 124, 12414, 12394, 12356,
      124, 12414, 12428, 12427, 124, 12417, 12394, 12356, 124, 12435, 12384, 12425,
      124, 12415, 12414, 12377, 124, 12414, 12379, 12427, 124, 12417, 12400, 124,
      12435, 12384, 124, 12416, 12394, 124, 12418, 12358, 124, 12417, 12427, 124,
      12416, 124, 12417>>

\* the arm 'る' of the match on end (example.rs line 355): っていませんでした|らなかったでしょう|りません ... い|った|ろう|れる|るな|れば|る|れ
Godan_end_ru ==
    <<12387, 12390, 12356, 12414, 12379, 12435, 12391, 12375, 12383, 124, 12425, 12394,
      12363, 12387, 12383, 12391, 12375, 12423, 12358, 124, 12426, 12414, 12379, 12435,
      12391, 12375, 12383, 12425, 124, 12425, 12394, 12363, 12387, 12383, 12384, 12429,
      12358, 124, 12425, 12394, 12356, 12391, 12367, 12384, 12373, 12356, 124, 12425,
      12394, 12356, 12391, 12375, 12423, 12358, 124, 12426, 12414, 12379, 12435, 12391,
      12375, 12383, 124, 12387, 12383, 12391, 12375, 12423, 12358, 124, 12387, 12390,
      12356, 12414, 12375, 12383, 124, 12387, 12390, 12367, 12384, 12373, 12356, 124,
      12425, 12394, 12356, 12384, 12429, 12358, 124, 12387, 12390, 12356, 12414, 12379,
      12435, 124, 12425, 12394, 12363, 12387, 12383, 12425, 124, 12427, 12391, 12375,
      12423, 12358, 124, 12387, 12390, 12356, 12414, 12377, 124, 12425, 12394, 12369,
      12428, 12400, 124, 12425, 12394, 12363, 12387, 12383, 124, 12425, 12428, 12414,
      12379, 12435, 124, 12387, 12383, 12384, 12429, 12358, 124, 12425, 12379, 12414,
      12379, 12435, 124, 12426, 12414, 12375, 12423, 12358, 124, 12426, 12414, 12375,
      12383, 12425, 124, 12428, 12414, 12379, 12435, 124, 12387, 12390, 12356, 12427,
      124, 12425, 12379, 12394, 12356, 124, 12387, 12390, 12356, 12383, 124, 12426,
      12414, 12375, 12383, 124, 12427, 12384, 12429, 12358, 124, 12426, 12414, 12379,
      12435, 124, 12425, 12428, 12414, 12377, 124, 12425, 12379, 12414, 12377, 124,
      12425, 12428, 12394, 12356, 124, 12387, 12383, 12425, 124, 12428, 12414, 12377,
      124, 12428, 12394, 12356, 124, 12425, 12379, 12427, 124, 12425, 12428, 12427,
      124, 12426, 12414, 12377, 124, 12425, 12394, 12356, 124, 12387, 12383, 124,
      12429, 12358, 124, 12428, 12427, 124, 12427, 12394, 124, 12428, 12400, 124,
      12427, 124, 12428>>

\* the arm 'ぐ' of the match on end (example.rs line 357): いでいませんでした|がなかったでしょう|ぎません ... ない|いだ|げる|ぐな|げば|ぐ|ご|げ
Godan_end_gu ==
    <<12356, 12391, 12356, 12414, 12379, 12435, 12391, 12375, 12383, 124, 12364, 12394,
      12363, 12387, 12383, 12391, 12375, 12423, 12358, 124, 12366, 12414, 12379, 12435,
      12391, 12375, 12383, 12425, 124, 12364, 12394, 12363, 12387, 12383, 12384, 12429,
      12358, 124, 12364, 12394, 12356, 12391, 12367, 12384, 12373, 12356, 124, 12364,
      12394, 12356, 12391, 12375, 12423, 12358, 124, 12366, 12414, 12379, 12435, 12391,
      12375, 12383, 124, 12356, 12384, 12391, 12375, 12423, 12358, 124, 12356, 12391,
      12356, 12414, 12375, 12383, 124, 12356, 12391, 12367, 12384, 12373, 12356, 124,
      12364, 12394, 12356, 12384, 12429, 12358, 124, 12356, 12391, 12356, 12414, 12379,
      12435, 124, 12364, 12394, 12363, 12387, 12383, 12425, 124, 12368, 12391, 12375,
      12423, 12358, 124, 12356, 12391, 12356, 12414, 12377, 124, 12364, 12394, 12363,
      12387, 12383, 124, 12364, 12394, 12369, 12428, 12400, 124, 12364, 12379, 12414,
      12379, 12435, 124, 12364, 12428, 12414, 12379, 12435, 124, 12366, 12414, 12375,
      12423, 12358, 124, 12356, 12384, 12384, 12429, 12358, 124, 12366, 12414, 12375,
      12383, 12425, 124, 12364, 12379, 12414, 12377, 124, 12370, 12414, 12379, 12435,
      124, 12356, 12391, 12356, 12427, 124, 12356, 12391, 12356, 12383, 124, 12366,
      12414, 12375, 12383, 124, 12368, 12384, 12429, 12358, 124, 12366, 12414, 12379,
      12435, 124, 12364, 12428, 12414, 12377, 124, 12364, 12428, 12394, 12356, 124,
      12370, 12414, 12377, 124, 12356, 12384, 12425, 124, 12364, 12394, 12356, 124,
      12364, 12379, 12427, 124, 12364, 12428, 12427, 124, 12370, 12394, 12356, 124,
      12366, 12414, 12377, 124, 12364, 12394, 12356, 124, 12356, 12384, 124, 12370,
      12427, 124, 12368, 12394, 124, 12370, 12400, 124, 12368, 124, 12372, 124,
      12370>>

\* the arm 'づ' of the match on end (example.rs line 358): っていませんでした|たなかったでしょう|たないで ... |つな|てば|った|てる|とう|て|つc
Godan_end_dzu ==
    <<12387, 12390, 12356, 12414, 12379, 12435, 12391, 12375, 12383, 124, 12383, 12394,
      12363, 12387, 12383, 12391, 12375, 12423, 12358, 124, 12383, 12394, 12356, 12391,
      12367, 12384, 12373, 12356, 124, 12385, 12414, 12379, 12435, 12391, 12375, 12383,
      12425, 124, 12383, 12394, 12363, 12387, 12383, 12384, 12429, 12358, 124, 12383,
      12394, 12356, 12391, 12375, 12423, 12358, 124, 12385, 12414, 12379, 12435, 12391,
      12375, 12383, 124, 12383, 12394, 12363, 12387, 12383, 12425, 124, 12387, 12390,
      12356, 12414, 12379, 12435, 124, 12387, 12383, 12391, 12375, 12423, 12358, 124,
      12387, 12390, 12367, 12384, 12373, 12356, 124, 12387, 12390, 12356, 12414, 12375,
      12383, 124, 12383, 12394, 12356, 12384, 12429, 12358, 124, 12387, 12383, 12384,
      12429, 12358, 124, 12385, 12414, 12375, 12383, 12425, 124, 12383, 12428, 12414,
      12379, 12435, 124, 12383, 12394, 12369, 12428, 12400, 124, 12383, 12379, 12414,
      12379, 12435, 124, 12383, 12394, 12363, 12387, 12383, 124, 12385, 12414, 12375,
      12423, 12358, 124, 12388, 12391, 12375, 12423, 12358, 124, 12387, 12390, 12356,
      12414, 12377, 124, 12383, 12428, 12414, 12377, 124, 12385, 12414, 12375, 12383,
      124, 12383, 12428, 12394, 12356, 124, 12390, 12414, 12379, 12435, 124, 12383,
      12379, 12414, 12377, 124, 12388, 12384, 12429, 12358, 124, 12387, 12390, 12356,
      12427, 124, 12385, 12414, 12379, 12435, 124, 12383, 12379, 12394, 12356, 124,
      12387, 12390, 12356, 12383, 124, 12390, 12414, 12377, 124, 12385, 12414, 12377,
      124, 12383, 12379, 12427, 124, 12383, 12428, 12427, 124, 12383, 12394, 12356,
      124, 12390, 12394, 12356, 124, 12387, 12383, 12425, 124, 12388, 12394, 124,
      12390, 12400, 124, 12387, 12383, 124, 12390, 12427, 124, 12392, 12358, 124,
      12390, 124, 12388, 99>>

\* the arm 'ぶ' of the match on end (example.rs line 359): んでいませんでした|ばなかったでしょう|びません ... ない|べば|んだ|ぶな|べる|ぶ|ぼ|べ
Godan_end_bu ==
    <<12435, 12391, 12356, 12414, 12379, 12435, 12391, 12375, 12383, 124, 12400, 12394,
      12363, 12387, 12383, 12391, 12375, 12423, 12358, 124, 12403, 12414, 12379, 12435,
      12391, 12375, 12383, 12425, 124, 12400, 12394, 12363, 12387, 12383, 12384, 12429,
      12358, 124, 12400, 12394, 12356, 12391, 12367, 12384, 12373, 12356, 124, 12400,
      12394, 12356, 12391, 12375, 12423, 12358, 124, 12403, 12414, 12379, 12435, 12391,
      12375, 12383, 124, 12435, 12391, 12356, 12414, 12379, 12435, 124, 12400, 12394,
      12363, 12387, 12383, 12425, 124, 12435, 12391, 12367, 12384, 12373, 12356, 124,
      12400, 12394, 12356, 12384, 12429, 12358, 124, 12435, 12391, 12356, 12414, 12375,
      12383, 124, 12435, 12384, 12391, 12375, 12423, 12358, 124, 12400, 12428, 12414,
      12379, 12435, 124, 12403, 12414, 12375, 12383, 12425, 124, 12435, 12391, 12356,
      12414, 12377, 124, 12400, 12394, 12369, 12428, 12400, 124, 12400, 12379, 12414,
      12379, 12435, 124, 12400, 12394, 12363, 12387, 12383, 124, 12403, 12414, 12375,
      12423, 12358, 124, 12406, 12391, 12375, 12423, 12358, 124, 12435, 12384, 12384,
      12429, 12358, 124, 12403, 12414, 12375, 12383, 124, 12435, 12391, 12356, 12427,
      124, 12400, 12428, 12394, 12356, 124, 12400, 12428, 12414, 12377, 124, 12435,
      12391, 12356, 12383, 124, 12409, 12414, 12379, 12435, 124, 12400, 12379, 12414,
      12377, 124, 12403, 12414, 12379, 12435, 124, 12406, 12384, 12429, 12358, 124,
      12400, 12394, 12356, 124, 12409, 12414, 12377, 124, 12400, 12428, 12427, 124,
      12409, 12394, 12356, 124, 12435, 12384, 12425, 124, 12400, 12379, 12427, 124,
      12403, 12414, 12377, 124, 12400, 12394, 12356, 124, 12409, 12400, 124, 12435,
      12384, 124, 12406, 12394, 124, 12409, 12427, 124, 12406, 124, 12412, 124,
      12409>>

\* the pattern of Aru (example.rs line 367): (?: ?有[あ]|有|あ)|(?: ?有[あ] ... れ|(?: ?有[あ]|有|あ)る|ない
Aru_pattern ==
    <<40, 63, 58, 32, 63, 26377, 91, 12354, 93, 124, 26377, 124,
      12354, 41, 124, 40, 63, 58, 32, 63, 26377, 91, 12354, 93,
      124, 26377, 124, 12354, 41, 12426, 12414, 12379, 12435, 12391, 12375, 12383,
      124, 40, 63, 58, 32, 63, 26377, 91, 12354, 93, 124, 26377,
      124, 12354, 41, 12387, 12390, 12367, 12384, 12373, 12356, 124, 12394, 12356,
      12391, 12367, 12384, 12373, 12356, 124, 40, 63, 58, 32, 63, 26377,
      91, 12354, 93, 124, 26377, 124, 12354, 41, 12425, 12379, 12414, 12379,
      12435, 124, 40, 63, 58, 32, 63, 26377, 91, 12354, 93, 124,
      26377, 124, 12354, 41, 12425, 12428, 12414, 12379, 12435, 124, 40, 63,
      58, 32, 63, 26377, 91, 12354, 93, 124, 26377, 124, 12354, 41,
      12426, 12414, 12375, 12423, 12358, 124, 40, 63, 58, 32, 63, 26377,
      91, 12354, 93, 124, 26377, 124, 12354, 41, 12426, 12414, 12375, 12383,
      124, 40, 63, 58, 32, 63, 26377, 91, 12354, 93, 124, 26377,
      124, 12354, 41, 12425, 12428, 12394, 12356, 124, 40, 63, 58, 32,
      63, 26377, 91, 12354, 93, 124, 26377, 124, 12354, 41, 12425, 12428,
      12414, 12377, 124, 40, 63, 58, 32, 63, 26377, 91, 12354, 93,
      124, 26377, 124, 12354, 41, 12425, 12379, 12394, 12356, 124, 40, 63,
      58, 32, 63, 26377, 91, 12354, 93, 124, 26377, 124, 12354, 41,
      12425, 12379, 12414, 12377, 124, 40, 63, 58, 32, 63, 26377, 91,
      12354, 93, 124, 26377, 124, 12354, 41, 12426, 12414, 12379, 12435, 124,
      12394, 12363, 12387, 12383, 12425, 124, 40, 63, 58, 32, 63, 26377,
      91, 12354, 93, 124, 26377, 124, 12354, 41, 12428, 12414, 12379, 12435,
      124, 12394, 12363, 12387, 12383, 124, 40, 63, 58, 32, 63, 26377,
      91, 12354, 93, 124, 26377, 124, 12354, 41, 12428, 12394, 12356, 124,
      40, 63, 58, 32, 63, 26377, 91, 12354, 93, 124, 26377, 124,
      12354, 41, 12425, 12379, 12427, 124, 40, 63, 58, 32, 63, 26377,
      91, 12354, 93, 124, 26377, 124, 12354, 41, 12425, 12428, 12427, 124,
      40, 63, 58, 32, 63, 26377, 91, 12354, 93, 124, 26377, 124,
      12354, 41, 12428, 12414, 12377, 124, 40, 63, 58, 32, 63, 26377,
      91, 12354, 93, 124, 26377, 124, 12354, 41, 12426, 12414, 12377, 124,
      12394, 12369, 12428, 12400, 124, 40, 63, 58, 32, 63, 26377, 91,
      12354, 93, 124, 26377, 124, 12354, 41, 12387, 12383, 12425, 124, 40,
      63, 58, 32, 63, 26377, 91, 12354, 93, 124, 26377, 124, 12354,
      41, 12387, 12390, 124, 12394, 12367, 12390, 124, 40, 63, 58, 32,
      63, 26377, 91, 12354, 93, 124, 26377, 124, 12354, 41, 12429, 12358,
      124, 40, 63, 58, 32, 63, 26377, 91, 12354, 93, 124, 26377,
      124, 12354, 41, 12427, 12394, 124, 40, 63, 58, 32, 63, 26377,
      91, 12354, 93, 124, 26377, 124, 12354, 41, 12428, 12400, 124, 40,
      63, 58, 32, 63, 26377, 91, 12354, 93, 124, 26377, 124, 12354,
      41, 12387, 12383, 124, 40, 63, 58, 32, 63, 26377, 91, 12354,
      93, 124, 26377, 124, 12354, 41, 12428, 12427, 124, 40, 63, 58,
      32, 63, 26377, 91, 12354, 93, 124, 26377, 124, 12354, 41, 12428,
      124, 40, 63, 58, 32, 63, 26377, 91, 12354, 93, 124, 26377,
      124, 12354, 41, 12427, 124, 12394, 12356>>

\* the pattern of Kuru (example.rs line 368): (?: ?来[く]|来|く)なかったでしょう|( ... |く)る|(?: ?来[く]|来|く)た
Kuru_pattern ==
    <<40, 63, 58, 32, 63, 26469, 91, 12367, 93, 124, 26469, 124,
      12367, 41, 12394, 12363, 12387, 12383, 12391, 12375, 12423, 12358, 124, 40,
      63, 58, 32, 63, 26469, 91, 12367, 93, 124, 26469, 124, 12367,
      41, 12394, 12363, 12387, 12383, 12384, 12429, 12358, 124, 40, 63, 58,
      32, 63, 26469, 91, 12367, 93, 124, 26469, 124, 12367, 41, 12414,
      12379, 12435, 12391, 12375, 12383, 12425, 124, 40, 63, 58, 32, 63,
      26469, 91, 12367, 93, 124, 26469, 124, 12367, 41, 12394, 12356, 12391,
      12367, 12384, 12373, 12356, 124, 40, 63, 58, 32, 63, 26469, 91,
      12367, 93, 124, 26469, 124, 12367, 41, 12394, 12356, 12391, 12375, 12423,
      12358, 124, 40, 63, 58, 32, 63, 26469, 91, 12367, 93, 124,
      26469, 124, 12367, 41, 12414, 12379, 12435, 12391, 12375, 12383, 124, 40,
      63, 58, 32, 63, 26469, 91, 12367, 93, 124, 26469, 124, 12367,
      41, 12373, 12379, 12414, 12379, 12435, 124, 40, 63, 58, 32, 63,
      26469, 91, 12367, 93, 124, 26469, 124, 12367, 41, 12427, 12391, 12375,
      12423, 12358, 124, 40, 63, 58, 32, 63, 26469, 91, 12367, 93,
      124, 26469, 124, 12367, 41, 12414, 12379, 12435, 12394, 12425, 124, 40,
      63, 58, 32, 63, 26469, 91, 12367, 93, 124, 26469, 124, 12367,
      41, 12390, 12367, 12384, 12373, 12356, 124, 40, 63, 58, 32, 63,
      26469, 91, 12367, 93, 124, 26469, 124, 12367, 41, 12394, 12363, 12387,
      12383, 12425, 124, 40, 63, 58, 32, 63, 26469, 91, 12367, 93,
      124, 26469, 124, 12367, 41, 12383, 12391, 12375, 12423, 12358, 124, 40,
      63, 58, 32, 63, 26469, 91, 12367, 93, 124, 26469, 124, 12367,
      41, 12425, 12428, 12414, 12379, 12435, 124, 40, 63, 58, 32, 63,
      26469, 91, 12367, 93, 124, 26469, 124, 12367, 41, 12394, 12356, 12384,
      12429, 12358, 124, 40, 63, 58, 32, 63, 26469, 91, 12367, 93,
      124, 26469, 124, 12367, 41, 12373, 12379, 12394, 12356, 124, 40, 63,
      58, 32, 63, 26469, 91, 12367, 93, 124, 26469, 124, 12367, 41,
      12394, 12363, 12387, 12383, 124, 40, 63, 58, 32, 63, 26469, 91,
      12367, 93, 124, 26469, 124, 12367, 41, 12373, 12379, 12414, 12377, 124,
      40, 63, 58, 32, 63, 26469, 91, 12367, 93, 124, 26469, 124,
      12367, 41, 12394, 12369, 12428, 12400, 124, 40, 63, 58, 32, 63,
      26469, 91, 12367, 93, 124, 26469, 124, 12367, 41, 12425, 12428, 12394,
      12356, 124, 40, 63, 58, 32, 63, 26469, 91, 12367, 93, 124,
      26469, 124, 12367, 41, 12425, 12428, 12414, 12377, 124, 40, 63, 58,
      32, 63, 26469, 91, 12367, 93, 124, 26469, 124, 12367, 41, 12414,
      12377, 12428, 12400, 124, 40, 63, 58, 32, 63, 26469, 91, 12367,
      93, 124, 26469, 124, 12367, 41, 12414, 12375, 12383, 12425, 124, 40,
      63, 58, 32, 63, 26469, 91, 12367, 93, 124, 26469, 124, 12367,
      41, 12425, 12428, 12427, 124, 40, 63, 58, 32, 63, 26469, 91,
      12367, 93, 124, 26469, 124, 12367, 41, 12373, 12379, 12427, 124, 40,
      63, 58, 32, 63, 26469, 91, 12367, 93, 124, 26469, 124, 12367,
      41, 12414, 12375, 12383, 124, 40, 63, 58, 32, 63, 26469, 91,
      12367, 93, 124, 26469, 124, 12367, 41, 12425, 12428, 12427, 124, 40,
      63, 58, 32, 63, 26469, 91, 12367, 93, 124, 26469, 124, 12367,
      41, 12414, 12379, 12435, 124, 12365, 12414, 12379, 12400, 124, 40, 63,
      58, 32, 63, 26469, 91, 12367, 93, 124, 26469, 124, 12367, 41,
      12428, 12400, 124, 40, 63, 58, 32, 63, 26469, 91, 12367, 93,
      124, 26469, 124, 12367, 41, 12394, 12356, 124, 40, 63, 58, 32,
      63, 26469, 91, 12367, 93, 124, 26469, 124, 12367, 41, 12427, 12394,
      124, 40, 63, 58, 32, 63, 26469, 91, 12367, 93, 124, 26469,
      124, 12367, 41, 12424, 12358, 124, 40, 63, 58, 32, 63, 26469,
      91, 12367, 93, 124, 26469, 124, 12367, 41, 12383, 12425, 124, 40,
      63, 58, 32, 63, 26469, 91, 12367, 93, 124, 26469, 124, 12367,
      41, 12414, 12377, 124, 40, 63, 58, 32, 63, 26469, 91, 12367,
      93, 124, 26469, 124, 12367, 41, 12356, 124, 40, 63, 58, 32,
      63, 26469, 91, 12367, 93, 124, 26469, 124, 12367, 41, 12427, 124,
      40, 63, 58, 32, 63, 26469, 91, 12367, 93, 124, 26469, 124,
      12367, 41, 12383>>

\* the pattern of Suru (example.rs line 369): していませんでした|しなかっただろう|しないでく ... |しよう|しない|[為す]る|した|しろ
Suru_pattern ==
    <<12375, 12390, 12356, 12414, 12379, 12435, 12391, 12375, 12383, 124, 12375, 12394,
      12363, 12387, 12383, 12384, 12429, 12358, 124, 12375, 12394, 12356, 12391, 12367,
      12384, 12373, 12356, 124, 12375, 12394, 12363, 12383, 12391, 12375, 12423, 12358,
      124, 12375, 12414, 12379, 12435, 12391, 12375, 12383, 12425, 124, 12375, 12414,
      12379, 12435, 12391, 12375, 12383, 124, 12375, 12394, 12356, 12391, 12375, 12423,
      12358, 124, 91, 28858, 12377, 93, 12427, 12391, 12375, 12423, 12358, 124,
      12375, 12414, 12375, 12383, 12429, 12358, 124, 12375, 12390, 12356, 12414, 12379,
      12435, 124, 12375, 12414, 12379, 12435, 12394, 12425, 124, 12375, 12394, 12356,
      12384, 12429, 12358, 124, 12375, 12394, 12363, 12387, 12383, 12425, 124, 12375,
      12390, 12356, 12414, 12375, 12383, 124, 12375, 12390, 12367, 12384, 12373, 12356,
      124, 12375, 12394, 12369, 12428, 12400, 124, 12375, 12414, 12375, 12383, 12425,
      124, 12375, 12394, 12363, 12387, 12383, 124, 12375, 12414, 12377, 12428, 12400,
      124, 91, 28858, 12377, 93, 12427, 12384, 12429, 12358, 124, 12375, 12414,
      12375, 12423, 12358, 124, 12391, 12365, 12414, 12379, 12435, 124, 12375, 12390,
      12356, 12414, 12377, 124, 12375, 12383, 12384, 12429, 12358, 124, 12375, 12383,
      12429, 12358, 124, 12375, 12414, 12375, 12383, 124, 12391, 12365, 12414, 12377,
      124, 12375, 12414, 12379, 12435, 124, 12375, 12414, 12379, 12400, 124, 12391,
      12365, 12394, 12356, 124, 12375, 12383, 12425, 124, 12373, 12379, 12427, 124,
      12373, 12428, 12427, 124, 12391, 12365, 12427, 124, 91, 28858, 12377, 93,
      12428, 12400, 124, 91, 28858, 12377, 93, 12427, 12394, 124, 12375, 12414,
      12377, 124, 12375, 12424, 12358, 124, 12375, 12394, 12356, 124, 91, 28858,
      12377, 93, 12427, 124, 12375, 12383, 124, 12375, 12429>>


(***************************************************************************)
(* get_conjugation_type and get_find_regex (bin/example.rs).  A note is a  *)
(* record of its tags, a sequence as Vec<String> is, and of its fields.    *)
(***************************************************************************)
\* the tags get_conjugation_type tests for, the prefixes of starts_with, and
\* three more tags, two of godan verbs and one of a noun
Tag ==
    [ adj_ix  |-> <<97, 100, 106, 45, 12356, 120>>,       \* adj-いx
      adj_i   |-> <<97, 100, 106, 45, 12356>>,            \* adj-い
      adj_na  |-> <<97, 100, 106, 45, 12394>>,            \* adj-な
      v5ru_i  |-> <<118, 53, 12427, 45, 105>>,            \* v5る-i
      vkuru   |-> <<118, 12367, 12427>>,                  \* vくる
      vsuru_i |-> <<118, 12377, 12427, 45, 105>>,         \* vする-i
      vsuru_s |-> <<118, 12377, 12427, 45, 115>>,         \* vする-s
      v5      |-> <<118, 53>>,                            \* v5
      v1      |-> <<118, 49>>,                            \* v1
      v5ru    |-> <<118, 53, 12427>>,                     \* v5る
      v5u     |-> <<118, 53, 12358>>,                     \* v5う
      n       |-> <<110>> ]                               \* n

\* the endings with き let through as well
InflectableEndings_with_ki ==
    {U.i, U.u, U.ku, U.su, U.tsu, U.nu, U.fu, U.mu, U.ru, U.gu, U.zu, U.dzu,
     U.bu, U.pu, U.ki}

\* the endings the match on verb_end lets through
InflectableEndings ==
    {U.i, U.u, U.ku, U.su, U.tsu, U.nu, U.fu, U.mu, U.ru, U.gu, U.zu, U.dzu,
     U.bu, U.pu}

\* str::starts_with
starts_with(s, prefix) ==
    IsPrefixAt(prefix, s, 1)

\* note.tags.iter().any(|tag| tag == wanted)
AnyTagIs(note, wanted) ==
    \E k \in 1..Len(note.tags) : note.tags[k] = wanted

\* note.tags.iter().any(|tag| tag.starts_with(prefix))
AnyTagStartsWith(note, prefix) ==
    \E k \in 1..Len(note.tags) : starts_with(note.tags[k], prefix)

\* get_conjugation_type with the test for a tag that starts with v5 made
\* before the test for v5る-i
get_conjugation_type_godan_first(note) ==
    LET word == note.fields["1 Word"]
        verb_end == word[Len(word)]
    IN  IF verb_end \notin InflectableEndings THEN "None"
        ELSE IF AnyTagIs(note, Tag.adj_ix) THEN "IxAdjective"
        ELSE IF AnyTagIs(note, Tag.adj_i) THEN "IAdjective"
        ELSE IF AnyTagIs(note, Tag.adj_na) THEN "NaAdjective"
        ELSE IF AnyTagStartsWith(note, Tag.v5) THEN "Godan"
        ELSE IF AnyTagIs(note, Tag.v5ru_i) THEN "Aru"
        ELSE IF AnyTagIs(note, Tag.vkuru) THEN "Kuru"
        ELSE IF AnyTagIs(note, Tag.vsuru_i) \/ AnyTagIs(note, Tag.vsuru_s) THEN "Suru"
        ELSE IF AnyTagStartsWith(note, Tag.v1) THEN "Ichidan"
        ELSE "None"

\* get_conjugation_type, of a note whose word is not empty
get_conjugation_type(note) ==
    LET word == note.fields["1 Word"]
        verb_end == word[Len(word)]
    IN  IF verb_end \notin InflectableEndings THEN "None"
        ELSE IF AnyTagIs(note, Tag.adj_ix) THEN "IxAdjective"
        ELSE IF AnyTagIs(note, Tag.adj_i) THEN "IAdjective"
        ELSE IF AnyTagIs(note, Tag.adj_na) THEN "NaAdjective"
        ELSE IF AnyTagIs(note, Tag.v5ru_i) THEN "Aru"
        ELSE IF AnyTagIs(note, Tag.vkuru) THEN "Kuru"
        ELSE IF AnyTagIs(note, Tag.vsuru_i) \/ AnyTagIs(note, Tag.vsuru_s) THEN "Suru"
        ELSE IF AnyTagStartsWith(note, Tag.v5) THEN "Godan"
        ELSE IF AnyTagStartsWith(note, Tag.v1) THEN "Ichidan"
        ELSE "None"

\* regex.replace_all(word, "\\$0") of the regex [\[\]]: a backslash before
\* every bracket
EscapeBrackets(word) ==
    JoinAll([k \in 1..Len(word) |->
                IF word[k] \in {U.lbracket, U.rbracket}
                THEN <<U.backslash, word[k]>>
                ELSE <<word[k]>>])

\* the match on end of the arm Godan: the catalog of the ending, or the
\* empty string where the match panics
Godan_end(end) ==
    CASE end = U.u -> Godan_end_u
      [] end = U.ku -> Godan_end_ku
      [] end = U.su -> Godan_end_su
      [] end = U.tsu -> Godan_end_tsu
      [] end = U.nu -> Godan_end_nu
      [] end = U.mu -> Godan_end_mu
      [] end = U.ru -> Godan_end_ru
      [] end = U.gu -> Godan_end_gu
      [] end = U.dzu -> Godan_end_dzu
      [] end = U.bu -> Godan_end_bu
      [] OTHER -> <<>>

\* the message of the panic of the match on end, "" where it does not panic
Godan_panic(end) ==
    IF end \in {U.fu, U.zu, U.pu} THEN "There is no godan verb ending with"
    ELSE IF Godan_end(end) = <<>> THEN "Unknown godan verb"
    ELSE ""

\* get_find_regex from the match on the conjugation type on, of a note whose
\* word is not empty: the pattern, or the message of the panic
get_find_regex(note) ==
    LET word == EscapeBrackets(note.fields["1 Word"])
        end == word[Len(word)]
        stem == SubStr(word, 1, Len(word))
        type == get_conjugation_type(note)
    IN  CASE type = "None" ->
               [panic |-> "", pattern |-> <<U.space, U.question>> \o word]
          [] type = "IAdjective" ->
               [panic |-> "", pattern |-> stem \o IAdjective_suffixes]
          [] type = "IxAdjective" ->
               [panic |-> "", pattern |-> IxAdjective_pattern]
          [] type = "NaAdjective" ->
               [panic |-> "", pattern |-> word \o NaAdjective_suffixes]
          [] type = "Ichidan" ->
               [panic |-> "", pattern |-> stem \o Ichidan_suffixes]
          [] type = "Godan" ->
               IF Godan_panic(end) # "" THEN [panic |-> Godan_panic(end), pattern |-> <<>>]
               ELSE [panic |-> "",
                     pattern |-> <<U.space, U.question>> \o stem
                                    \o <<U.lparen, U.question, U.colon>>
                                    \o Godan_end(end) \o <<U.rparen>>]
          [] type = "Aru" ->
               [panic |-> "", pattern |-> Aru_pattern]
          [] type = "Kuru" ->
               [panic |-> "", pattern |-> Kuru_pattern]
          [] type = "Suru" ->
               [panic |-> "", pattern |-> Suru_pattern]

(***************************************************************************)
(* State.                                                                  *)
(***************************************************************************)
VARIABLES
    \* Reading Aligner: the arguments of to_furigana ...
    kanji, kana, kanji_readings,
    \* ... and what each call made with them returned
    results,
    \* convert_data: the entry enum T of the list, the list, where the
    \* function is and the index of its loop
    T, data, pc, count,
    \* the kanji map and the word map keyed by (kanji, kana); kanji_readings
    \* above is the table convert_word_data makes of the kanji map
    kanji_map, words,
    \* the word map keyed by furigana that convert_word_data returns
    lexicon,
    \* the message of the panic, if any
    failure,
    \* filter_overlapping: the keys of words the loop has been at, in order,
    \* its map out, and the map it returns
    visited, out, filtered,
    \* get_find_regex: the note it is called with, the conjugation type it
    \* finds and the pattern it returns
    note, conjugation, pattern,
    \* main of bin/dictionary.rs: the word list and the kanji list written, one
    \* document for each run
    wordlist, kanjilist,
    \* TatoebaSearchIter: the delay and the response it holds, the pages the
    \* service has for the query, what the calls of next() returned, and the
    \* sleeps, requests and responses of the thread in their order
    delay, response, service, yielded, log,
    \* process_note: its examples and its filter, the slice of search
    \* configurations, the configurations it has made an iterator of, how many
    \* entries the iterator it is at has yielded, and what AnkiConnect was
    \* asked to update
    examples, filter, search_slice, started, fetched, anki

aligner_inputs == <<kanji, kana, results>>
convert_vars == <<T, data, pc, count, kanji_map, words, lexicon, failure>>
filter_vars == <<visited, out, filtered>>
\* what filter_overlapping leaves alone
filter_frame == <<kanji, kana, kanji_readings, results,
                  T, data, count, kanji_map, lexicon, failure>>
find_regex_vars == <<note, conjugation, pattern>>
\* what get_find_regex leaves alone, words and filter_vars apart
find_regex_frame == <<kanji, kana, kanji_readings, results,
                      T, data, count, kanji_map, lexicon>>
save_vars == <<wordlist, kanjilist>>
search_vars == <<delay, response, service, yielded, log>>
process_vars == <<examples, filter, search_slice, started, fetched, anki>>
vars == <<kanji, kana, kanji_readings, results,
          T, data, pc, count, kanji_map, words, lexicon, failure,
          visited, out, filtered, note, conjugation, pattern,
          wordlist, kanjilist,
          delay, response, service, yielded, log,
          examples, filter, search_slice, started, fetched, anki>>

\* the value of note where get_find_regex is not called
NoNote ==
    [tags |-> <<>>, fields |-> ("1 Word" :> <<>>)]

(***************************************************************************)
(* The Reading Aligner as a state machine: to_furigana is called MaxCalls  *)
(* times on the same arguments.                                            *)
(***************************************************************************)
\* the strings over the characters chars of length at most n
StringsUpTo(chars, n) ==
    UNION {[1..len -> chars] : len \in 0..n}

\* the reading tables of the enumerated inputs: two kanji, the first with no
\* reading, one reading or two readings of which one is a prefix of the other
EnumeratedTables ==
    {(U.ima :> first) @@ (U.nichi :> second) :
        first \in {{}, {<<U.ki>>}, {<<U.ki>>, <<U.ki, U.u>>}},
        second \in {{<<U.u>>}, {<<U.u>>, <<U.u, U.u>>}}}

EnumeratedInputs ==
    {[kanji |-> k, kana |-> r, kanji_readings |-> t] :
        k \in StringsUpTo({U.ima, U.nichi, U.u}, MaxKanjiLen),
        r \in StringsUpTo({U.ki, U.u}, MaxKanaLen),
        t \in EnumeratedTables}

\* the table of tests::test_to_furigana
TestTable ==
    (U.kiX :> {<<U.ki>>, <<U.ke>>})
    @@ (U.doku :> {<<U.do, U.ku>>})
    @@ (U.ima :> {<<U.ko, U.n>>, <<U.ki, U.n>>, <<U.i, U.ma>>})
    @@ (U.nichi :> {<<U.ni, U.chi>>, <<U.ji, U.tsu>>, <<U.hi>>, <<U.bi>>, <<U.ka>>})
    @@ (U.toku :> {<<U.to, U.ku>>})
    @@ (U.kyuu :> {<<U.ki, U.lyu, U.u>>, <<U.i, U.so>>, <<U.se>>})
    @@ (U.tatsu :> {<<U.ke, U.n>>, <<U.ko, U.n>>, <<U.da>>, <<U.ta>>})
    @@ (U.butsu :> {<<U.bu, U.tsu>>, <<U.mo, U.tsu>>, <<U.mo, U.no>>})

\* the calls of tests::test_to_furigana
TestInputs ==
    {[kanji |-> <<U.kiX, U.no, U.doku>>,
      kana |-> <<U.ki, U.no, U.do, U.ku>>, kanji_readings |-> TestTable],
     [kanji |-> <<U.kiX, U.kiX, U.no, U.doku>>,
      kana |-> <<U.ki, U.ke, U.no, U.do, U.ku>>, kanji_readings |-> TestTable],
     [kanji |-> <<U.ima, U.nichi>>,
      kana |-> <<U.ki, U.lyo, U.u>>, kanji_readings |-> TestTable],
     [kanji |-> <<U.toku, U.kyuu>>,
      kana |-> <<U.to, U.ltsu, U.ki, U.lyu, U.u>>, kanji_readings |-> TestTable],
     [kanji |-> <<U.tatsu, U.butsu>>,
      kana |-> <<U.ta, U.te, U.mo, U.no>>, kanji_readings |-> TestTable]}

AlignerInit ==
    /\ \E input \in EnumeratedInputs \cup TestInputs :
          /\ kanji = input.kanji
          /\ kana = input.kana
          /\ kanji_readings = input.kanji_readings
    /\ results = <<>>
    /\ T = "JmnedictEntry"
    /\ data = <<>>
    /\ pc = "to_furigana"
    /\ count = 0
    /\ kanji_map = <<>>
    /\ words = <<>>
    /\ lexicon = <<>>
    /\ failure = ""
    /\ visited = <<>>
    /\ out = <<>>
    /\ filtered = <<>>
    /\ note = NoNote
    /\ conjugation = ""
    /\ pattern = <<>>
    /\ wordlist = <<>>
    /\ kanjilist = <<>>
    /\ delay = <<>>
    /\ response = <<>>
    /\ service = <<>>
    /\ yielded = <<>>
    /\ log = <<>>
    /\ examples = <<>>
    /\ filter = {}
    /\ search_slice = <<>>
    /\ started = <<>>
    /\ fetched = 0
    /\ anki = <<>>

\* one call of to_furigana; the iteration order of the reading sets is the
\* call's own
CallToFurigana ==
    /\ Len(results) < MaxCalls
    /\ \E iter \in IterOrders(kanji, kanji_readings) :
          results' = Append(results, to_furigana(kanji, kana, kanji_readings, iter))
    /\ UNCHANGED <<kanji, kana, kanji_readings>>
    /\ UNCHANGED convert_vars
    /\ UNCHANGED filter_vars
    /\ UNCHANGED find_regex_vars
    /\ UNCHANGED save_vars
    /\ UNCHANGED search_vars
    /\ UNCHANGED process_vars

AlignerNext ==
    CallToFurigana

SpecAligner ==
    AlignerInit /\ [][AlignerNext]_vars

(***************************************************************************)
(* convert_data (dict_parser.rs) as a state machine: the kanji pass, then  *)
(* the word pass, one entry of the list per step, then the final sort and  *)
(* the re-keying of the word map by furigana.                              *)
(***************************************************************************)
\* the divisor of the progress report: count % (data.len() / 20)
ProgressSteps == 20

KanjiNow ==
    [shape |-> "Kanji", kanji |-> U.ima, onyomi |-> <<U.KI>>, kunyomi |-> <<>>,
     meaning |-> <<"now">>, strokes |-> <<4>>, jlpt |-> <<5>>]

\* a second entry for the character of KanjiNow, with other readings
KanjiNowAgain ==
    [shape |-> "Kanji", kanji |-> U.ima, onyomi |-> <<>>,
     kunyomi |-> <<U.u, U.dot, U.ki>>,
     meaning |-> <<>>, strokes |-> <<>>, jlpt |-> <<>>]

KanjiDay ==
    [shape |-> "Kanji", kanji |-> U.nichi, onyomi |-> <<>>, kunyomi |-> <<U.u>>,
     meaning |-> <<"day">>, strokes |-> <<4>>, jlpt |-> <<5>>]

ExampleToday ==
    [japanese |-> "jp-today", english |-> "en-today"]

ExampleThisDay ==
    [japanese |-> "jp-this-day", english |-> "en-this-day"]

\* three word entries of one key, the second of the least order an i32 holds
WordToday ==
    [shape |-> "Word", kanji |-> <<U.ima, U.nichi>>, kana |-> <<U.ki, U.u>>,
     tags |-> {"n"}, order |-> 1, glossary |-> <<"today">>,
     example |-> <<ExampleToday>>, id |-> 1, frequency |-> {"news1k"}]

WordTodayLeast ==
    [shape |-> "Word", kanji |-> <<U.ima, U.nichi>>, kana |-> <<U.ki, U.u>>,
     tags |-> {}, order |-> MinI32, glossary |-> <<"nowadays">>,
     example |-> <<>>, id |-> 2, frequency |-> {"ichi"}]

WordThisDay ==
    [shape |-> "Word", kanji |-> <<U.ima, U.nichi>>, kana |-> <<U.ki, U.u>>,
     tags |-> {"adv"}, order |-> 2, glossary |-> <<"this day">>,
     example |-> <<ExampleThisDay>>, id |-> 3, frequency |-> {}]

FrequencyToday ==
    [shape |-> "Frequency", kanji |-> <<U.ima, U.nichi>>, kana |-> <<U.ki, U.u>>,
     jlpt |-> 5]

FrequencyDay ==
    [shape |-> "Frequency", kanji |-> <<U.nichi>>, kana |-> <<U.hi>>, jlpt |-> 4]

UnknownEntry ==
    [shape |-> "Unknown"]

Entries ==
    {KanjiNow, KanjiNowAgain, WordToday, WordTodayLeast, WordThisDay,
     FrequencyToday, FrequencyDay, UnknownEntry}

\* the lists convert_data is called with: at most MaxEntries entries, alone
\* or followed by ProgressSteps entries for one more kanji
EntryLists ==
    {head \o tail :
        head \in UNION {[1..n -> Entries] : n \in 0..MaxEntries},
        tail \in {<<>>, [k \in 1..ProgressSteps |-> KanjiDay]}}

ConvertInit ==
    /\ T \in {"JmnedictEntry", "JitendexEntry"}
    /\ data \in EntryLists
    /\ pc = "convert_kanji_data"
    /\ count = 0
    /\ kanji_map = <<>>
    /\ kanji_readings = <<>>
    /\ words = <<>>
    /\ lexicon = <<>>
    /\ failure = ""
    /\ visited = <<>>
    /\ out = <<>>
    /\ filtered = <<>>
    /\ note = NoNote
    /\ conjugation = ""
    /\ pattern = <<>>
    /\ kanji = <<>>
    /\ kana = <<>>
    /\ results = <<>>
    /\ wordlist = <<>>
    /\ kanjilist = <<>>
    /\ delay = <<>>
    /\ response = <<>>
    /\ service = <<>>
    /\ yielded = <<>>
    /\ log = <<>>
    /\ examples = <<>>
    /\ filter = {}
    /\ search_slice = <<>>
    /\ started = <<>>
    /\ fetched = 0
    /\ anki = <<>>

\* count % (data.len() / 20) has a zero divisor
ProgressDivisorIsZero ==
    Len(data) \div ProgressSteps = 0

\* one iteration of the loop of convert_kanji_data; what the entry returns is
\* dropped (let _ =)
ConvertKanjiEntry ==
    /\ pc = "convert_kanji_data"
    /\ count < Len(data)
    /\ IF ProgressDivisorIsZero
       THEN /\ pc' = "panicked"
            /\ failure' = "remainder with a divisor of zero"
            /\ UNCHANGED <<count, kanji_map>>
       ELSE /\ kanji_map' \in Entry_convert_kanji_data(data[count + 1], kanji_map)
            /\ count' = count + 1
            /\ UNCHANGED <<pc, failure>>
    /\ UNCHANGED <<T, data, kanji_readings, words, lexicon, aligner_inputs>>
    /\ UNCHANGED filter_vars
    /\ UNCHANGED find_regex_vars
    /\ UNCHANGED save_vars
    /\ UNCHANGED search_vars
    /\ UNCHANGED process_vars

\* convert_kanji_data returns and convert_word_data starts: the table of the
\* readings of each kanji
StartConvertWords ==
    /\ pc = "convert_kanji_data"
    /\ count = Len(data)
    /\ pc' = "convert_word_data"
    /\ count' = 0
    /\ kanji_readings' = [c \in DOMAIN kanji_map |-> readings(kanji_map[c])]
    /\ words' = <<>>
    /\ UNCHANGED <<T, data, kanji_map, lexicon, failure, kanji, kana, results>>
    /\ UNCHANGED filter_vars
    /\ UNCHANGED find_regex_vars
    /\ UNCHANGED save_vars
    /\ UNCHANGED search_vars
    /\ UNCHANGED process_vars

\* one iteration of the loop of convert_word_data
ConvertWordEntry ==
    /\ pc = "convert_word_data"
    /\ count < Len(data)
    /\ IF ProgressDivisorIsZero
       THEN /\ pc' = "panicked"
            /\ failure' = "remainder with a divisor of zero"
            /\ UNCHANGED <<count, words>>
       ELSE IF Entry_convert_word_data_is_err(data[count + 1])
       THEN /\ pc' = "panicked"
            /\ failure' = "Failed to convert"
            /\ UNCHANGED <<count, words>>
       ELSE /\ words' \in Entry_convert_word_data(T, data[count + 1], words,
                                                   kanji_readings)
            /\ count' = count + 1
            /\ UNCHANGED <<pc, failure>>
    /\ UNCHANGED <<T, data, kanji_map, kanji_readings, lexicon, aligner_inputs>>
    /\ UNCHANGED filter_vars
    /\ UNCHANGED find_regex_vars
    /\ UNCHANGED save_vars
    /\ UNCHANGED search_vars
    /\ UNCHANGED process_vars

\* the glossaries are sorted by -order and the map is re-keyed by furigana;
\* a negation that overflows panics in a build with overflow checks and wraps
\* in a build without
FinishConvertWords ==
    /\ pc = "convert_word_data"
    /\ count = Len(data)
    /\ \/ /\ \E key \in DOMAIN words : SortOverflows(words[key].glossary)
          /\ pc' = "panicked"
          /\ failure' = "attempt to negate with overflow"
          /\ UNCHANGED lexicon
       \/ /\ \E sorted \in SortedGlossaries(words) :
                lexicon' \in RekeyedByFurigana(sorted)
          /\ pc' = "returned"
          /\ UNCHANGED failure
    /\ UNCHANGED <<T, data, count, kanji_map, kanji_readings, words, aligner_inputs>>
    /\ UNCHANGED filter_vars
    /\ UNCHANGED find_regex_vars
    /\ UNCHANGED save_vars
    /\ UNCHANGED search_vars
    /\ UNCHANGED process_vars

ConvertNext ==
    \/ ConvertKanjiEntry
    \/ StartConvertWords
    \/ ConvertWordEntry
    \/ FinishConvertWords

SpecConvert ==
    ConvertInit /\ [][ConvertNext]_vars

(***************************************************************************)
(* filter_overlapping (bin/dictionary.rs) as a state machine: the loop     *)
(* takes the entries of words one at a time, in the order the HashMap      *)
(* yields them, and the map out is re-keyed by furigana at the end.        *)
(***************************************************************************)
\* four furigana of two kanji-only spellings: 今日[きう], 今[き]日[う],
\* 今[きう]日 and 日[う]
Furiganas ==
    {<<U.ima, U.nichi, U.lbracket, U.ki, U.u, U.rbracket>>,
     <<U.ima, U.lbracket, U.ki, U.rbracket, U.nichi, U.lbracket, U.u, U.rbracket>>,
     <<U.ima, U.lbracket, U.ki, U.u, U.rbracket, U.nichi>>,
     <<U.nichi, U.lbracket, U.u, U.rbracket>>}

\* the glossaries, frequency tags and examples of the records
Glossaries ==
    {<<>>,
     <<[order |-> 1, tags |-> {}, meaning |-> <<"today">>]>>,
     <<[order |-> 2, tags |-> {}, meaning |-> <<"this day">>]>>}

JlptTagSets ==
    {{}, {"JLPT-N1"}, {"JLPT-N5"}}

NewsTagSets ==
    {{}, {"news1k"}, {"news255k"}}

ExampleSets ==
    {{}, {ExampleToday}}

\* the records of the furigana f: every combination of the above for the
\* first two furigana of 今日, the combinations of a JLPT tag and of an
\* example for the third, and one record for 日[う], whose record is compared
\* with no other
WordsOf(f) ==
    IF f = <<U.ima, U.lbracket, U.ki, U.u, U.rbracket, U.nichi>>
    THEN {[word_id |-> Len(f), furigana |-> f, glossary |-> <<>>,
           frequency |-> j, examples |-> e] :
             j \in JlptTagSets, e \in ExampleSets}
    ELSE IF to_kanji(f) = <<U.ima, U.nichi>>
    THEN {[word_id |-> Len(f), furigana |-> f, glossary |-> g,
           frequency |-> j \cup n, examples |-> e] :
             g \in Glossaries, j \in JlptTagSets, n \in NewsTagSets,
             e \in ExampleSets}
    ELSE {[word_id |-> Len(f), furigana |-> f, glossary |-> <<>>,
           frequency |-> {"JLPT-N5"}, examples |-> {}]}

\* the records of f in a map of more than two records: those of no glossary
\* and of no news tag
FewWordsOf(f) ==
    {w \in WordsOf(f) :
        w.glossary = <<>> /\ w.frequency \in JlptTagSets}

\* the maps filter_overlapping is called with: keyed by furigana, as
\* convert_word_data returns them, of at most MaxRecords records
WordMaps ==
    UNION {{m \in [keys -> UNION {IF Cardinality(keys) <= 2 THEN WordsOf(f)
                                   ELSE FewWordsOf(f) : f \in keys}] :
                \A f \in keys : m[f].furigana = f} :
           keys \in {S \in SUBSET Furiganas : Cardinality(S) <= MaxRecords}}

FilterInit ==
    /\ words \in WordMaps
    /\ pc = "filter_overlapping"
    /\ visited = <<>>
    /\ out = <<>>
    /\ filtered = <<>>
    /\ note = NoNote
    /\ conjugation = ""
    /\ pattern = <<>>
    /\ T = "JmnedictEntry"
    /\ data = <<>>
    /\ count = 0
    /\ kanji_map = <<>>
    /\ kanji_readings = <<>>
    /\ lexicon = <<>>
    /\ failure = ""
    /\ kanji = <<>>
    /\ kana = <<>>
    /\ results = <<>>
    /\ wordlist = <<>>
    /\ kanjilist = <<>>
    /\ delay = <<>>
    /\ response = <<>>
    /\ service = <<>>
    /\ yielded = <<>>
    /\ log = <<>>
    /\ examples = <<>>
    /\ filter = {}
    /\ search_slice = <<>>
    /\ started = <<>>
    /\ fetched = 0
    /\ anki = <<>>

\* an iteration that puts the record it is at in the place of the record out
\* holds, whatever the comparison: the mutation of FilterOverlappingEntry
FilterOverlappingEntry_keeps_last ==
    /\ pc = "filter_overlapping"
    /\ \E key \in DOMAIN words \ ToSet(visited) :
          /\ out' = [k \in DOMAIN out \cup {to_kanji(key)} |->
                        IF k = to_kanji(key) THEN words[key] ELSE out[k]]
          /\ visited' = Append(visited, key)
    /\ UNCHANGED <<pc, words, filtered, filter_frame>>
    /\ UNCHANGED find_regex_vars
    /\ UNCHANGED save_vars
    /\ UNCHANGED search_vars
    /\ UNCHANGED process_vars

\* one iteration of the loop, at an entry the iteration has not yielded yet
FilterOverlappingEntry ==
    /\ pc = "filter_overlapping"
    /\ \E key \in DOMAIN words \ ToSet(visited) :
          /\ out' = FilterEntry(out, key, words[key])
          /\ visited' = Append(visited, key)
    /\ UNCHANGED <<pc, words, filtered, filter_frame>>
    /\ UNCHANGED find_regex_vars
    /\ UNCHANGED save_vars
    /\ UNCHANGED search_vars
    /\ UNCHANGED process_vars

\* out.into_values().map(|value| (value.furigana.clone(), value)).collect()
FilterOverlappingReturn ==
    /\ pc = "filter_overlapping"
    /\ ToSet(visited) = DOMAIN words
    /\ filtered' \in RekeyedByFurigana(out)
    /\ pc' = "filtered"
    /\ UNCHANGED <<words, visited, out, filter_frame>>
    /\ UNCHANGED find_regex_vars
    /\ UNCHANGED save_vars
    /\ UNCHANGED search_vars
    /\ UNCHANGED process_vars

FilterNext ==
    \/ FilterOverlappingEntry
    \/ FilterOverlappingReturn

SpecFilter ==
    FilterInit /\ [][FilterNext]_vars

(***************************************************************************)
(* get_find_regex as a state machine: one call on a note.                  *)
(***************************************************************************)
\* the words of the notes: the empty word, words of no inflectable ending,
\* and a word of every inflectable ending the catalogs know, of ふ, and of
\* the adjectives and the irregular verbs
Words ==
    {<<>>,
     <<29483>>,                                     \* 猫
     <<29483, 91, 12397, 12371, 93>>,               \* 猫[ねこ]
     <<22909, 12365>>,                              \* 好き
     <<20316, 12427>>,                              \* 作る
     <<20316, 91, 12388, 12367, 93, 12427>>,        \* 作[つく]る
     <<36023, 12358>>,                              \* 買う
     <<26360, 12367>>,                              \* 書く
     <<35441, 12377>>,                              \* 話す
     <<24453, 12388>>,                              \* 待つ
     <<27515, 12396>>,                              \* 死ぬ
     <<35501, 12416>>,                              \* 読む
     <<27891, 12368>>,                              \* 泳ぐ
     <<20986, 12389>>,                              \* 出づ
     <<36938, 12406>>,                              \* 遊ぶ
     <<35328, 12405>>,                              \* 言ふ
     <<39640, 12356>>,                              \* 高い
     <<23244, 12356>>,                              \* 嫌い
     <<33391, 12356>>,                              \* 良い
     <<12356, 12356>>,                              \* いい
     <<12354, 12427>>,                              \* ある
     <<26469, 12427>>,                              \* 来る
     <<12377, 12427>>}                              \* する

\* the tags of the notes
NoteTags ==
    {Tag.adj_ix, Tag.adj_i, Tag.adj_na, Tag.v5ru_i, Tag.vkuru, Tag.vsuru_i,
     Tag.vsuru_s, Tag.v5ru, Tag.v5u, Tag.v1, Tag.n}

\* the notes: a word and at most MaxTags tags
Notes ==
    {[tags |-> tags, fields |-> ("1 Word" :> word)] :
        tags \in UNION {[1..n -> NoteTags] : n \in 0..MaxTags}, word \in Words}

FindRegexInit ==
    /\ note \in Notes
    /\ pc = "get_find_regex"
    /\ conjugation = ""
    /\ pattern = <<>>
    /\ failure = ""
    /\ words = <<>>
    /\ visited = <<>>
    /\ out = <<>>
    /\ filtered = <<>>
    /\ T = "JmnedictEntry"
    /\ data = <<>>
    /\ count = 0
    /\ kanji_map = <<>>
    /\ kanji_readings = <<>>
    /\ lexicon = <<>>
    /\ kanji = <<>>
    /\ kana = <<>>
    /\ results = <<>>
    /\ wordlist = <<>>
    /\ kanjilist = <<>>
    /\ delay = <<>>
    /\ response = <<>>
    /\ service = <<>>
    /\ yielded = <<>>
    /\ log = <<>>
    /\ examples = <<>>
    /\ filter = {}
    /\ search_slice = <<>>
    /\ started = <<>>
    /\ fetched = 0
    /\ anki = <<>>

\* the call: word.chars().last().unwrap() panics on the empty word, the
\* match on end of the arm Godan on an ending it has no catalog for
GetFindRegex ==
    /\ pc = "get_find_regex"
    /\ IF note.fields["1 Word"] = <<>>
       THEN /\ pc' = "panicked"
            /\ failure' = "called Option::unwrap() on a None value"
            /\ UNCHANGED <<conjugation, pattern>>
       ELSE /\ conjugation' = get_conjugation_type(note)
            /\ IF get_find_regex(note).panic # ""
               THEN /\ pc' = "panicked"
                    /\ failure' = get_find_regex(note).panic
                    /\ UNCHANGED pattern
               ELSE /\ pc' = "found"
                    /\ pattern' = get_find_regex(note).pattern
                    /\ UNCHANGED failure
    /\ UNCHANGED <<note, words, filter_vars, find_regex_frame>>
    /\ UNCHANGED save_vars
    /\ UNCHANGED search_vars
    /\ UNCHANGED process_vars

FindRegexNext ==
    GetFindRegex

SpecFindRegex ==
    FindRegexInit /\ [][FindRegexNext]_vars

(***************************************************************************)
(* The end of main of bin/dictionary.rs as a state machine: a run writes   *)
(* the word list, then the kanji list, each entry of a map on a line of    *)
(* its own in the order HashMap::iter yields them.  The HashMap of a run   *)
(* has its own RandomState, so the order is any order, run by run.         *)
(***************************************************************************)
\* serde_json::to_string of a Word: the fields in their order, a HashSet as
\* the array of its elements in the order its iterator yields them
Word_to_string(v) ==
    {[word_id |-> v.word_id, furigana |-> v.furigana, glossary |-> v.glossary,
      frequency |-> frequency_array, examples |-> examples_array] :
        frequency_array \in Enumerations(v.frequency),
        examples_array \in Enumerations(v.examples)}

\* serde_json::to_string of a Kanji
Kanji_to_string(v) ==
    {[kanji |-> v.kanji, onyomi |-> onyomi, kunyomi |-> kunyomi,
      meaning |-> v.meaning, strokes |-> v.strokes, tags |-> tags] :
        onyomi \in Enumerations(v.onyomi),
        kunyomi \in Enumerations(v.kunyomi),
        tags \in Enumerations(v.tags)}

\* the documents save_data.join can make of a map whose values serialize as
\* strings[k]: a line "key": value for each key, in an order of iteration
save_data(strings) ==
    {[k \in 1..Len(iter) |-> [key |-> iter[k], value |-> value[iter[k]]]] :
        iter \in Enumerations(DOMAIN strings),
        value \in {f \in [DOMAIN strings -> UNION {strings[k] : k \in DOMAIN strings}] :
                     \A k \in DOMAIN strings : f[k] \in strings[k]}}

\* the word maps main has after filter_overlapping: records of 今[き]日[う]
\* and of 日[う]
SavedWordMaps ==
    LET today == <<U.ima, U.lbracket, U.ki, U.rbracket, U.nichi, U.lbracket, U.u, U.rbracket>>
        day == <<U.nichi, U.lbracket, U.u, U.rbracket>>
        Record(f, tags) == [word_id |-> Len(f), furigana |-> f, glossary |-> <<>>,
                            frequency |-> tags, examples |-> {ExampleToday}]
    IN  {<<>>,
         (day :> Record(day, {"JLPT-N5"})),
         (today :> Record(today, {"JLPT-N5", "news1k"})),
         (today :> Record(today, {"JLPT-N5", "news1k"}))
            @@ (day :> Record(day, {"JLPT-N5"}))}

\* the kanji maps main has: those convert_kanji_data makes of KanjiNow and
\* KanjiDay
SavedKanjiMaps ==
    {<<>>}
    \cup KanjidicEntry_convert_kanji_data(KanjiNow, <<>>)
    \cup UNION {KanjidicEntry_convert_kanji_data(KanjiDay, map) :
                  map \in KanjidicEntry_convert_kanji_data(KanjiNow, <<>>)}

SaveInit ==
    /\ filtered \in SavedWordMaps
    /\ kanji_map \in SavedKanjiMaps
    /\ pc = "save_wordlist"
    /\ wordlist = <<>>
    /\ kanjilist = <<>>
    /\ words = <<>>
    /\ visited = <<>>
    /\ out = <<>>
    /\ note = NoNote
    /\ conjugation = ""
    /\ pattern = <<>>
    /\ T = "JmnedictEntry"
    /\ data = <<>>
    /\ count = 0
    /\ kanji_readings = <<>>
    /\ lexicon = <<>>
    /\ failure = ""
    /\ kanji = <<>>
    /\ kana = <<>>
    /\ results = <<>>
    /\ delay = <<>>
    /\ response = <<>>
    /\ service = <<>>
    /\ yielded = <<>>
    /\ log = <<>>
    /\ examples = <<>>
    /\ filter = {}
    /\ search_slice = <<>>
    /\ started = <<>>
    /\ fetched = 0
    /\ anki = <<>>

\* what the end of main leaves alone
save_frame == <<kanji, kana, kanji_readings, results, T, data, count, kanji_map,
                words, lexicon, failure, visited, out, filtered, note,
                conjugation, pattern>>

\* fs::write(wordlist_save_path, ...) of the words of the run
SaveWordlist ==
    /\ pc = "save_wordlist"
    /\ \E document \in save_data([k \in DOMAIN filtered |-> Word_to_string(filtered[k])]) :
          wordlist' = Append(wordlist, document)
    /\ pc' = "save_kanjilist"
    /\ UNCHANGED <<kanjilist, save_frame>>
    /\ UNCHANGED search_vars
    /\ UNCHANGED process_vars

\* fs::write(kanjilist_save_path, ...) of the kanji of the run
SaveKanjilist ==
    /\ pc = "save_kanjilist"
    /\ \E document \in save_data([k \in DOMAIN kanji_map |-> Kanji_to_string(kanji_map[k])]) :
          kanjilist' = Append(kanjilist, document)
    /\ pc' = "saved"
    /\ UNCHANGED <<wordlist, save_frame>>
    /\ UNCHANGED search_vars
    /\ UNCHANGED process_vars

\* main is run once more on the same input
RunMainAgain ==
    /\ pc = "saved"
    /\ Len(wordlist) < MaxRuns
    /\ pc' = "save_wordlist"
    /\ UNCHANGED <<save_vars, save_frame>>
    /\ UNCHANGED search_vars
    /\ UNCHANGED process_vars

SaveNext ==
    \/ SaveWordlist
    \/ SaveKanjilist
    \/ RunMainAgain

SpecSave ==
    SaveInit /\ [][SaveNext]_vars

(***************************************************************************)
(* TatoebaSearchIter (tatoeba_search.rs) as a state machine.  The service  *)
(* has a list of pages for the query; the page after the cursor n is the   *)
(* n-th of the list.  The thread of the iterator blocks in search from     *)
(* the request to its response, which is a step of the service.            *)
(***************************************************************************)
\* the pages the service can have: page n has up to MaxPageLen entries,
\* numbered from 10 * n + 1, and a cursor_end or none
Services ==
    UNION {{[p \in 1..n |->
               [data |-> [k \in 1..lengths[p] |-> 10 * p + k],
                cursor_end |-> IF has_cursor[p] THEN <<p + 1>> ELSE <<>>]] :
               lengths \in [1..n -> 0..MaxPageLen],
               has_cursor \in [1..n -> BOOLEAN]} :
           n \in 1..MaxPages}

\* TatoebaSearch::search(querry, after).ok(): None when the request or the
\* parsing fails, or the page the service answers with; after the last page
\* of its list the service has a page of no entries
search(after) ==
    {<<>>} \cup {<<IF after = <<>> THEN service[1]
                   ELSE IF after[1] <= Len(service) THEN service[after[1]]
                   ELSE [data |-> <<>>, cursor_end |-> <<>>]>>}

\* a thread that never sleeps: the mutation of sleep
sleep_skipped(duration) ==
    <<>>

\* if let Some(delay) = delay { thread::sleep(delay) }: what the thread does
sleep(duration) ==
    IF duration # <<>> THEN <<[kind |-> "sleep", value |-> duration]>> ELSE <<>>

\* a pop that takes the first entry of the list: the mutation of pop
pop_front(list) ==
    [out |-> <<list[1]>>, data |-> SubSeq(list, 2, Len(list))]

\* Vec::pop of a list that is not empty: the last entry, and the list left
pop(list) ==
    [out |-> <<list[Len(list)]>>, data |-> SubSeq(list, 1, Len(list) - 1)]

SearchIterInit ==
    /\ service \in Services
    /\ delay \in {<<>>, <<333>>}
    /\ pc = "from"
    /\ response = <<>>
    /\ yielded = <<>>
    /\ log = <<>>
    /\ out = <<>>
    /\ wordlist = <<>>
    /\ kanjilist = <<>>
    /\ filtered = <<>>
    /\ kanji_map = <<>>
    /\ words = <<>>
    /\ visited = <<>>
    /\ note = NoNote
    /\ conjugation = ""
    /\ pattern = <<>>
    /\ T = "JmnedictEntry"
    /\ data = <<>>
    /\ count = 0
    /\ kanji_readings = <<>>
    /\ lexicon = <<>>
    /\ failure = ""
    /\ kanji = <<>>
    /\ kana = <<>>
    /\ results = <<>>
    /\ examples = <<>>
    /\ filter = {}
    /\ search_slice = <<>>
    /\ started = <<>>
    /\ fetched = 0
    /\ anki = <<>>

\* what the iterator leaves alone
search_frame == <<kanji, kana, kanji_readings, results, T, data, count, kanji_map,
                  words, lexicon, failure, visited, filtered, note, conjugation,
                  pattern, wordlist, kanjilist, service, delay>>

\* TatoebaSearchIter::from up to the request of the first page
SearchIterFrom ==
    /\ pc = "from"
    /\ log' = log \o sleep(delay) \o <<[kind |-> "request", value |-> <<>>]>>
    /\ pc' = "from_search"
    /\ UNCHANGED <<response, yielded, out, search_frame>>
    /\ UNCHANGED process_vars

\* search returns in from or in next, which returns what it popped
SearchReturns ==
    /\ pc \in {"from_search", "next_search"}
    /\ \E result \in search(log[Len(log)].value) :
          /\ response' = result
          /\ log' = Append(log, [kind |-> "response", value |-> result])
    /\ yielded' = IF pc = "next_search" THEN Append(yielded, out) ELSE yielded
    /\ pc' = "next"
    /\ UNCHANGED <<out, search_frame>>
    /\ UNCHANGED process_vars

\* next() with a response: the end of the pages at an empty page, or an
\* entry popped and, if the page is now empty, the next page requested
NextOfResponse ==
    IF response[1].data = <<>>
    THEN /\ response' = <<>>
         /\ yielded' = Append(yielded, <<>>)
         /\ UNCHANGED <<log, out, pc>>
    ELSE LET popped == pop(response[1].data)
         IN  IF popped.data # <<>>
             THEN /\ response' = <<[response[1] EXCEPT !.data = popped.data]>>
                  /\ yielded' = Append(yielded, popped.out)
                  /\ UNCHANGED <<log, out, pc>>
             ELSE IF response[1].cursor_end # <<>>
             THEN /\ response' = <<[response[1] EXCEPT !.data = popped.data]>>
                  /\ out' = popped.out
                  /\ log' = log \o sleep(delay)
                                \o <<[kind |-> "request",
                                      value |-> response[1].cursor_end]>>
                  /\ pc' = "next_search"
                  /\ UNCHANGED yielded
             ELSE /\ response' = <<>>
                  /\ yielded' = Append(yielded, popped.out)
                  /\ UNCHANGED <<log, out, pc>>

\* a next() that, without a response, asks for the first page again: the
\* mutation of SearchIterNext
SearchIterNext_asks_again ==
    /\ pc = "next"
    /\ Cardinality({k \in 1..Len(yielded) : yielded[k] = <<>>}) < MaxNones
    /\ IF response = <<>>
       THEN /\ log' = log \o sleep(delay) \o <<[kind |-> "request", value |-> <<>>]>>
            /\ out' = <<>>
            /\ pc' = "next_search"
            /\ UNCHANGED <<response, yielded>>
       ELSE NextOfResponse
    /\ UNCHANGED search_frame
    /\ UNCHANGED process_vars

\* Iterator::next, up to its return or to the request of the next page;
\* self.response.as_mut()? returns None when there is no response
SearchIterNext ==
    /\ pc = "next"
    /\ Cardinality({k \in 1..Len(yielded) : yielded[k] = <<>>}) < MaxNones
    /\ IF response = <<>>
       THEN /\ yielded' = Append(yielded, <<>>)
            /\ UNCHANGED <<response, log, out, pc>>
       ELSE NextOfResponse
    /\ UNCHANGED search_frame
    /\ UNCHANGED process_vars

SearchIterStep ==
    \/ SearchIterFrom
    \/ SearchReturns
    \/ SearchIterNext

SpecSearchIter ==
    SearchIterInit /\ [][SearchIterStep]_vars

\* the consumer keeps calling next() and no request is left without an answer
\* or an error
FairSpecSearchIter ==
    SpecSearchIter /\ WF_vars(SearchIterStep)

(***************************************************************************)
(* process_note (bin/example.rs) as a state machine: the loop over the     *)
(* search configurations, the loop over the entries an iterator yields,    *)
(* and the update of the note.  An entry is what the loop makes of it up   *)
(* to the filter key: the longest transcription that format_tatoeba_       *)
(* response accepts, if any, and the longest translation, if any; a line   *)
(* of the field 4 Sentences is what parse_examples captures of it.  The    *)
(* word of the note is one get_find_regex has a pattern for.               *)
(***************************************************************************)
\* get_filter_key: the HTML tags stripped, then to_kanji, then no whitespace
get_filter_key(str) ==
    LET RECURSIVE strip_html(_, _)
        strip_html(s, pos) ==
            IF pos > Len(s) THEN <<>>
            ELSE LET ends == {j \in (pos + 1)..Len(s) :
                                /\ s[j] = 62
                                /\ \A x \in (pos + 1)..(j - 1) : s[x] \notin {60, 62}}
                 IN  IF s[pos] = 60 /\ ends # {}
                     THEN strip_html(s, (CHOOSE j \in ends : TRUE) + 1)
                     ELSE <<s[pos]>> \o strip_html(s, pos + 1)
        IsNotSpace(c) == c \notin WhiteSpace
    IN  SelectSeq(to_kanji(strip_html(str, 1)), IsNotSpace)

\* parse_examples: the lines of the field that have a translation, as pairs
\* (jp, en)
parse_examples(card) ==
    LET HasTranslation(line) == line.en # <<>>
        lines == SelectSeq(card.fields["4 Sentences"], HasTranslation)
    IN  [k \in 1..Len(lines) |-> <<lines[k].jp, lines[k].en[1]>>]

ProcessNoteInit ==
    /\ note \in
          {[tags |-> <<>>,
            fields |-> ("1 Word" :> <<U.ima, U.nichi>>) @@ ("4 Sentences" :> lines)] :
             lines \in
               {<<>>,
                <<[jp |-> <<60, 98, 62, U.ima, U.nichi, 60, 47, 98, 62>>, en |-> <<>>]>>,
                <<[jp |-> <<60, 98, 62, U.ima, U.nichi, 60, 47, 98, 62>>,
                   en |-> <<<<116, 111, 100, 97, 121>>>>]>>,
                <<[jp |-> <<60, 98, 62, U.ima, U.nichi, 60, 47, 98, 62>>,
                   en |-> <<<<116, 111, 100, 97, 121>>>>],
                  [jp |-> <<U.nichi>>, en |-> <<<<100, 97, 121>>>>]>>}}
    /\ count \in 0..MaxCount
    /\ search_slice \in {[k \in 1..n |-> k] : n \in 0..MaxSearches}
    /\ examples = parse_examples(note)
    /\ filter = {get_filter_key(parse_examples(note)[k][1]) :
                   k \in 1..Len(parse_examples(note))}
    /\ pc = "for_search"
    /\ started = <<>>
    /\ fetched = 0
    /\ anki = <<>>
    /\ delay = <<>>
    /\ response = <<>>
    /\ service = <<>>
    /\ yielded = <<>>
    /\ log = <<>>
    /\ out = <<>>
    /\ wordlist = <<>>
    /\ kanjilist = <<>>
    /\ filtered = <<>>
    /\ kanji_map = <<>>
    /\ words = <<>>
    /\ visited = <<>>
    /\ conjugation = ""
    /\ pattern = <<>>
    /\ T = "JmnedictEntry"
    /\ data = <<>>
    /\ kanji_readings = <<>>
    /\ lexicon = <<>>
    /\ failure = ""
    /\ kanji = <<>>
    /\ kana = <<>>
    /\ results = <<>>

\* a loop over the configurations that does not look at the number of
\* examples: the mutation of ForSearch
ForSearch_without_break ==
    /\ pc = "for_search"
    /\ IF Len(started) = Len(search_slice)
       THEN /\ pc' = "update_note_fields"
            /\ UNCHANGED <<started, fetched>>
       ELSE /\ started' = Append(started, search_slice[Len(started) + 1])
            /\ fetched' = 0
            /\ pc' = "for_example"
    /\ UNCHANGED <<examples, filter, search_slice, anki, note, count>>
    /\ UNCHANGED <<kanji, kana, kanji_readings, results, T, data, kanji_map, words,
                   lexicon, failure, filter_vars, conjugation, pattern, save_vars,
                   search_vars>>

\* for search in search: the end of the slice or the break, or the iterator
\* of the next configuration
ForSearch ==
    /\ pc = "for_search"
    /\ IF Len(started) = Len(search_slice) \/ Len(examples) >= count
       THEN /\ pc' = "update_note_fields"
            /\ UNCHANGED <<started, fetched>>
       ELSE /\ started' = Append(started, search_slice[Len(started) + 1])
            /\ fetched' = 0
            /\ pc' = "for_example"
    /\ UNCHANGED <<examples, filter, search_slice, anki, note, count>>
    /\ UNCHANGED <<kanji, kana, kanji_readings, results, T, data, kanji_map, words,
                   lexicon, failure, filter_vars, conjugation, pattern, save_vars,
                   search_vars>>

\* for example in search.search_iter(...): the iterator ends, or yields an
\* entry, which the loop skips or pushes
ForExample ==
    /\ pc = "for_example"
    /\ \/ /\ pc' = "for_search"
          /\ UNCHANGED <<examples, filter, fetched>>
       \/ /\ fetched < MaxFound
          /\ fetched' = fetched + 1
          /\ \E example \in
                {[transcription |-> <<<<60, 98, 62, U.ima, U.nichi, 60, 47, 98, 62>>>>,
                  translation |-> <<<<116, 111, 100, 97, 121>>>>],
                 [transcription |-> <<<<60, 98, 62, U.space, U.ima, U.lbracket, U.ki,
                                        U.rbracket, U.space, U.nichi, U.lbracket, U.u,
                                        U.rbracket, 60, 47, 98, 62>>>>,
                  translation |-> <<<<116, 104, 105, 115>>>>],
                 [transcription |-> <<<<60, 98, 62, U.nichi, 60, 47, 98, 62>>>>,
                  translation |-> <<<<100, 97, 121>>>>],
                 [transcription |-> <<>>, translation |-> <<<<100, 97, 121>>>>],
                 [transcription |-> <<<<U.nichi>>>>, translation |-> <<>>]} :
                IF \/ example.transcription = <<>>
                   \/ example.translation = <<>>
                   \/ get_filter_key(example.transcription[1]) \in filter
                THEN /\ UNCHANGED <<examples, filter, pc>>
                ELSE /\ filter' = filter \cup {get_filter_key(example.transcription[1])}
                     /\ examples' = Append(examples, <<example.transcription[1],
                                                       example.translation[1]>>)
                     /\ pc' = IF Len(examples') >= count THEN "for_search"
                              ELSE "for_example"
    /\ UNCHANGED <<started, search_slice, anki, note, count>>
    /\ UNCHANGED <<kanji, kana, kanji_readings, results, T, data, kanji_map, words,
                   lexicon, failure, filter_vars, conjugation, pattern, save_vars,
                   search_vars>>

\* the examples joined with <br> and written to the field 4 Sentences
UpdateNoteFields ==
    /\ pc = "update_note_fields"
    /\ anki' = Append(anki,
                  "4 Sentences" :>
                     JoinAll([k \in 1..Len(examples) |->
                                 (IF k > 1 THEN <<60, 98, 114, 62, 60, 98, 114, 62>>
                                  ELSE <<>>)
                                 \o examples[k][1] \o <<60, 98, 114, 62>>
                                 \o examples[k][2]]))
    /\ pc' = "returned"
    /\ UNCHANGED <<examples, filter, search_slice, started, fetched, note, count>>
    /\ UNCHANGED <<kanji, kana, kanji_readings, results, T, data, kanji_map, words,
                   lexicon, failure, filter_vars, conjugation, pattern, save_vars,
                   search_vars>>

ProcessNoteNext ==
    \/ ForSearch
    \/ ForExample
    \/ UpdateNoteFields

SpecProcessNote ==
    ProcessNoteInit /\ [][ProcessNoteNext]_vars

(***************************************************************************)
(* Properties of the Reading Aligner.  The operators below say what a      *)
(* pattern accepts as a set of strings, with no search order: a block      *)
(* accepts the readings of its character (the character itself when it has *)
(* no entry in the table), a coalesced block the concatenations of what    *)
(* its characters accept, a wildcard any non-empty string.                 *)
(***************************************************************************)
IsKanjiChar(c) ==
    c \in DOMAIN kanji_readings

CharLanguage(c) ==
    IF IsKanjiChar(c)
    THEN (IF kanji_readings[c] = {} THEN {<<>>} ELSE kanji_readings[c])
    ELSE {<<c>>}

\* the first characters of the maximal kanji / non-kanji runs of the spelling
RunStarts ==
    {k \in 1..Len(kanji) :
        k = 1 \/ IsKanjiChar(kanji[k]) # IsKanjiChar(kanji[k - 1])}

\* the blocks as ranges of the spelling: one per character, or one per run
Segments(coalesced) ==
    IF ~coalesced THEN [k \in 1..Len(kanji) |-> [from |-> k, to |-> k]]
    ELSE
      LET starts == CHOOSE f \in [1..Cardinality(RunStarts) -> RunStarts] :
                      \A x, y \in 1..Cardinality(RunStarts) : x < y => f[x] < f[y]
      IN  [k \in 1..Len(starts) |->
             [from |-> starts[k],
              to |-> IF k = Len(starts) THEN Len(kanji) ELSE starts[k + 1] - 1]]

SegmentIsKanji(seg) ==
    IsKanjiChar(kanji[seg.from])

SegmentText(seg) ==
    SubStr(kanji, seg.from, seg.to + 1)

RECURSIVE RangeLanguage(_, _)
RangeLanguage(from, to) ==
    IF from > to THEN {<<>>}
    ELSE {head \o tail : head \in CharLanguage(kanji[from]),
                         tail \in RangeLanguage(from + 1, to)}

RECURSIVE PieceSeqs(_, _, _, _)
\* the ways to cut the reading from pos on into one piece per block from block
\* k on, each piece accepted by its block, the block wild by the wildcard
PieceSeqs(segs, wild, k, pos) ==
    IF k > Len(segs)
    THEN (IF pos = Len(kana) + 1 THEN {<<>>} ELSE {})
    ELSE UNION
      {{<<SubStr(kana, pos, end)>> \o rest : rest \in PieceSeqs(segs, wild, k + 1, end)} :
          end \in {e \in pos..(Len(kana) + 1) :
                     IF k = wild
                     THEN e > pos /\ \A x \in pos..(e - 1) : kana[x] # U.newline
                     ELSE SubStr(kana, pos, e)
                              \in RangeLanguage(segs[k].from, segs[k].to)}}

\* the attempts to_furigana can make: no wildcard, or the wildcard on a kanji
\* block
IsAttempt(coalesced, wild) ==
    \/ wild = 0
    \/ /\ wild \in 1..Len(Segments(coalesced))
       /\ SegmentIsKanji(Segments(coalesced)[wild])

AttemptMatches(coalesced, wild) ==
    PieceSeqs(Segments(coalesced), wild, 1, 1) # {}

\* attempt (c1, w1) comes before attempt (c2, w2) in the search order
AttemptBefore(c1, w1, c2, w2) ==
    \/ ~c1 /\ c2
    \/ c1 = c2 /\ w1 < w2

RECURSIVE Flatten(_)
Flatten(seqs) ==
    IF seqs = <<>> THEN <<>> ELSE Head(seqs) \o Flatten(Tail(seqs))

\* the layout of the blocks segs with the captured pieces
Layout(segs, pieces) ==
    Flatten([k \in 1..Len(segs) |->
        IF SegmentIsKanji(segs[k])
        THEN (IF k > 1 /\ ~SegmentIsKanji(segs[k - 1]) THEN <<U.space>> ELSE <<>>)
                 \o SegmentText(segs[k]) \o <<U.lbracket>> \o pieces[k]
                 \o <<U.rbracket>>
        ELSE SegmentText(segs[k])])

\* C1: round trip -- whenever to_furigana returns Some(F), to_kanji(F) is the
\* kanji spelling and to_kana(F) is the kana reading it was called with.
C1_RoundTrip ==
    \A k \in 1..Len(results) :
        results[k].some =>
            /\ to_kanji(results[k].out) = kanji
            /\ to_kana(results[k].out) = kana

\* C2: to_furigana returns the first success of the fixed search order
\* (per-character exact, per-character wildcard by ascending block index,
\* coalesced exact, coalesced wildcard by ascending block index): the attempt
\* that produced a result matches the reading, no earlier attempt does, and
\* None is returned only when no attempt matches.
C2_FirstSuccessOfSearchOrder ==
    \A k \in 1..Len(results) :
        LET r == results[k]
        IN  /\ r.some =>
                 /\ IsAttempt(r.coalesced, r.wildcard_index)
                 /\ AttemptMatches(r.coalesced, r.wildcard_index)
                 /\ \A c \in BOOLEAN, w \in 0..Len(kanji) :
                        (IsAttempt(c, w)
                            /\ AttemptBefore(c, w, r.coalesced, r.wildcard_index))
                        => ~AttemptMatches(c, w)
            /\ ~r.some =>
                 \A c \in BOOLEAN, w \in 0..Len(kanji) :
                     IsAttempt(c, w) => ~AttemptMatches(c, w)

\* a coalesced wildcard result: 今日 read きょう gives 今日[きょう]
C2_Witness ==
    /\ kanji = <<U.ima, U.nichi>>
    /\ kana = <<U.ki, U.lyo, U.u>>
    /\ kanji_readings = TestTable
    /\ Len(results) >= 1
    /\ results[1].some /\ results[1].coalesced /\ results[1].wildcard_index = 1
    /\ results[1].out
         = <<U.ima, U.nichi, U.lbracket, U.ki, U.lyo, U.u, U.rbracket>>

\* C3: layout of a successful alignment -- each kanji block is its text, "[",
\* the kana slice it captured and "]", each non-kanji block is its text, and
\* one space stands before a kanji block exactly when the block before it is
\* a non-kanji block; 気の毒 read きのどく gives 気[き]の 毒[どく] and
\* 気気の毒 read きけのどく gives 気[き]気[け]の 毒[どく].
C3_OutputLayout ==
    \A k \in 1..Len(results) :
        LET r == results[k]
            segs == Segments(r.coalesced)
        IN  r.some =>
              /\ \E pieces \in PieceSeqs(segs, r.wildcard_index, 1, 1) :
                    r.out = Layout(segs, pieces)
              /\ (r.out # <<>> => r.out[1] # U.space)
              /\ (kanji = <<U.kiX, U.no, U.doku>> /\ kanji_readings = TestTable)
                    => r.out = <<U.kiX, U.lbracket, U.ki, U.rbracket, U.no, U.space,
                                 U.doku, U.lbracket, U.do, U.ku, U.rbracket>>
              /\ (kanji = <<U.kiX, U.kiX, U.no, U.doku>> /\ kanji_readings = TestTable)
                    => r.out = <<U.kiX, U.lbracket, U.ki, U.rbracket,
                                 U.kiX, U.lbracket, U.ke, U.rbracket, U.no, U.space,
                                 U.doku, U.lbracket, U.do, U.ku, U.rbracket>>

\* the alignment of 気気の毒: two adjacent kanji blocks, a non-kanji block and
\* a kanji block after it
C3_Witness ==
    /\ kanji = <<U.kiX, U.kiX, U.no, U.doku>>
    /\ kanji_readings = TestTable
    /\ Len(results) >= 1
    /\ results[1].some

\* C4: determinism -- two calls of to_furigana with the same spelling, reading
\* and reading sets return the same result.
C4_Deterministic ==
    \A x, y \in 1..Len(results) :
        /\ results[x].some = results[y].some
        /\ results[x].out = results[y].out

(***************************************************************************)
(* Properties of convert_data.                                             *)
(***************************************************************************)
\* the entry the loop of the running pass is at
CurrentEntry ==
    data[count + 1]

\* the word pass is about to hand a word entry to its adapter
AtWordEntry ==
    /\ pc = "convert_word_data"
    /\ count < Len(data)
    /\ CurrentEntry.shape = "Word"

\* the word pass is about to hand a word or frequency entry to its adapter
AtWordOrFrequencyEntry ==
    /\ pc = "convert_word_data"
    /\ count < Len(data)
    /\ CurrentEntry.shape \in {"Word", "Frequency"}

\* the sequences s and t hold the same elements the same number of times
SameElements(s, t) ==
    /\ Len(s) = Len(t)
    /\ \E p \in Orderings(Len(s)) : \A k \in 1..Len(s) : s[k] = t[p[k]]

\* the frequency tags an entry contributes
ContributedFrequency(entry) ==
    IF entry.shape = "Word" THEN entry.frequency
    ELSE {"JLPT-N" \o ToString(entry.jlpt)}

\* the examples an entry contributes
ContributedExamples(entry) ==
    IF entry.shape = "Word" THEN {entry.example[k] : k \in 1..Len(entry.example)}
    ELSE {}

\* the word and frequency entries of the list that have the key
EntriesOfKey(key) ==
    {data[k] : k \in {x \in 1..Len(data) :
                        /\ data[x].shape \in {"Word", "Frequency"}
                        /\ <<data[x].kanji, data[x].kana>> = key}}

\* the kanji entries for the character c among the first n of the list
KanjiEntriesSeen(c, n) ==
    {k \in 1..n : data[k].shape = "Kanji" /\ data[k].kanji = c}

\* the position of the first unrecognized entry of the list
FirstUnknown ==
    CHOOSE u \in 1..Len(data) :
        /\ data[u].shape = "Unknown"
        /\ \A k \in 1..(u - 1) : data[k].shape # "Unknown"

\* C5: a word entry contributed under a key the word map holds -- the record
\* gains exactly one glossary entry, made of the entry's order, tags and
\* meanings, its frequency set and example set become the unions with the
\* entry's, its identifier becomes the entry's, and no record is inserted.
C5_WordEntryOnExistingKey ==
    [][(AtWordEntry /\ <<CurrentEntry.kanji, CurrentEntry.kana>> \in DOMAIN words
          /\ count' = count + 1)
       => LET key == <<CurrentEntry.kanji, CurrentEntry.kana>>
              gained == [order |-> CurrentEntry.order, tags |-> CurrentEntry.tags,
                         meaning |-> CurrentEntry.glossary]
          IN  /\ DOMAIN words' = DOMAIN words
              /\ SameElements(words'[key].glossary, Append(words[key].glossary, gained))
              /\ words'[key].frequency = words[key].frequency \cup CurrentEntry.frequency
              /\ words'[key].examples
                   = words[key].examples \cup ContributedExamples(CurrentEntry)
              /\ words'[key].word_id = CurrentEntry.id]_vars

\* the Jitendex adapter has merged a second word entry into the record of the
\* first
C5_Witness ==
    /\ T = "JitendexEntry"
    /\ pc = "convert_word_data"
    /\ count = 2
    /\ data[1] = WordToday /\ data[2] = WordThisDay
    /\ words[<<WordToday.kanji, WordToday.kana>>].word_id = WordThisDay.id
    /\ Len(words[<<WordToday.kanji, WordToday.kana>>].glossary) = 2
    /\ words[<<WordToday.kanji, WordToday.kana>>].examples
         = {ExampleToday, ExampleThisDay}

\* C6: a word or frequency entry contributed under a key the word map lacks --
\* the pass goes on, and the record inserted under the key has as furigana
\* what to_furigana returned, or kanji [ kana ] when it returned None.
C6_AlignmentFailureFallsBack ==
    [][(AtWordOrFrequencyEntry
          /\ <<CurrentEntry.kanji, CurrentEntry.kana>> \notin DOMAIN words)
       => LET key == <<CurrentEntry.kanji, CurrentEntry.kana>>
          IN  /\ pc' = "convert_word_data"
              /\ count' = count + 1
              /\ key \in DOMAIN words'
              /\ \E iter \in IterOrders(CurrentEntry.kanji, kanji_readings) :
                    LET aligned == to_furigana(CurrentEntry.kanji, CurrentEntry.kana,
                                               kanji_readings, iter)
                    IN  words'[key].furigana
                          = IF aligned.some THEN aligned.out
                            ELSE CurrentEntry.kanji \o <<U.lbracket>>
                                   \o CurrentEntry.kana \o <<U.rbracket>>]_vars

\* 今日 read きう with no entry for 今 in the kanji map: the alignment fails
\* and the record is inserted as 今日[きう]; the pass has gone on to the end
C6_Witness ==
    /\ pc = "returned"
    /\ Len(data) > ProgressSteps
    /\ U.ima \notin DOMAIN kanji_readings
    /\ data[1] = WordToday
    /\ words[<<WordToday.kanji, WordToday.kana>>].furigana
         = <<U.ima, U.nichi, U.lbracket, U.ki, U.u, U.rbracket>>

\* C7: kanji contributions merge as a union -- during the kanji pass the
\* record of each character seen has as on-reading set, kun-reading set and
\* tag set the union of those of the entries seen for it, and as stroke count
\* that of the last of them; a character seen is in the map.
C7_KanjiUnionMerge ==
    pc = "convert_kanji_data" =>
        \A c \in {data[k].kanji : k \in {x \in 1..count : data[x].shape = "Kanji"}} :
            LET seen == KanjiEntriesSeen(c, count)
                last == CHOOSE k \in seen : \A x \in seen : x <= k
            IN  /\ c \in DOMAIN kanji_map
                /\ kanji_map[c].onyomi
                     = UNION {KanjidicEntry_onyomi(data[k]) : k \in seen}
                /\ kanji_map[c].kunyomi
                     = UNION {KanjidicEntry_kunyomi(data[k]) : k \in seen}
                /\ kanji_map[c].tags
                     = UNION {KanjidicEntry_tags(data[k]) : k \in seen}
                /\ kanji_map[c].strokes = data[last].strokes

\* C8: the union parts of the merge do not depend on the order of the list --
\* in what convert_word_data returns, the record of each key has as frequency
\* set the union of the frequency tags, and as example set the union of the
\* examples, of all the word and frequency entries of the list with that key,
\* wherever in the list they stand.
C8_UnionPartsOrderIndependent ==
    pc = "returned" =>
        \A k \in 1..Len(data) :
            data[k].shape \in {"Word", "Frequency"} =>
                LET key == <<data[k].kanji, data[k].kana>>
                    record == lexicon[words[key].furigana]
                IN  /\ record.frequency
                         = UNION {ContributedFrequency(e) : e \in EntriesOfKey(key)}
                    /\ record.examples
                         = UNION {ContributedExamples(e) : e \in EntriesOfKey(key)}

\* a frequency entry, then a word entry of the same key, then one more: the
\* record returned has the tags and the examples of the three
C8_Witness ==
    /\ pc = "returned"
    /\ Len(data) > ProgressSteps
    /\ data[1] = FrequencyToday /\ data[2] = WordThisDay /\ data[3] = WordToday
    /\ \E f \in DOMAIN lexicon :
          /\ lexicon[f].frequency = {"JLPT-N5", "news1k"}
          /\ lexicon[f].examples = {ExampleToday, ExampleThisDay}

\* C9: in every record convert_word_data returns, the glossary entries are in
\* non-increasing order of their priority integer, whatever i32 the orders
\* are.
C9_GlossaryNonIncreasing ==
    pc = "returned" =>
        \A f \in DOMAIN lexicon :
            \A k \in 1..(Len(lexicon[f].glossary) - 1) :
                lexicon[f].glossary[k].order >= lexicon[f].glossary[k + 1].order

\* C10: a list with an unrecognized entry -- convert_data never returns a
\* lexicon, and the word pass stops at the first unrecognized entry: no entry
\* after it is handed to its adapter, and the keys of the word map are those
\* of entries before it.
C10_UnknownEntryAborts ==
    (\E k \in 1..Len(data) : data[k].shape = "Unknown") =>
        /\ pc # "returned"
        /\ lexicon = <<>>
        /\ pc \in {"convert_word_data", "panicked"} => count < FirstUnknown
        /\ \A key \in DOMAIN words :
              \E k \in 1..(FirstUnknown - 1) :
                  /\ data[k].shape \in {"Word", "Frequency"}
                  /\ <<data[k].kanji, data[k].kana>> = key

\* the word pass of a list of more than ProgressSteps entries has merged the
\* first entry, met the unrecognized second one and panicked with the third,
\* a word entry, not handed to its adapter
C10_Witness ==
    /\ pc = "panicked"
    /\ failure = "Failed to convert"
    /\ Len(data) > ProgressSteps
    /\ data[1] = FrequencyDay /\ data[2] = UnknownEntry /\ data[3] = WordToday
    /\ count = 1
    /\ DOMAIN words = {<<FrequencyDay.kanji, FrequencyDay.kana>>}

\* the word pass is about to hand a frequency entry to its adapter
AtFrequencyEntry ==
    /\ pc = "convert_word_data"
    /\ count < Len(data)
    /\ CurrentEntry.shape = "Frequency"

\* the step is one of the adapter: the loop moves on to the next entry
AdapterReturns ==
    count' = count + 1

\* C28: a frequency entry whose key has a record in the word map changes the
\* frequency set of this record only, which gains the tag JLPT-N<level>: the
\* identifier, the display spelling, the glossary and the example set stay,
\* so do the other records, and no record is added; a frequency entry whose
\* key has no record adds one record under the key, of identifier 0, of
\* frequency set the tag alone, with no glossary and no example, and leaves
\* the others as they are
C28_FrequencyAdapterFrame ==
    [][(AtFrequencyEntry /\ AdapterReturns) =>
          LET key == <<CurrentEntry.kanji, CurrentEntry.kana>>
              tag == "JLPT-N" \o ToString(CurrentEntry.jlpt)
          IN  /\ \A other \in DOMAIN words \ {key} :
                    other \in DOMAIN words' /\ words'[other] = words[other]
              /\ DOMAIN words' = DOMAIN words \cup {key}
              /\ IF key \in DOMAIN words
                 THEN /\ words'[key].frequency = words[key].frequency \cup {tag}
                      /\ words'[key].word_id = words[key].word_id
                      /\ words'[key].furigana = words[key].furigana
                      /\ words'[key].glossary = words[key].glossary
                      /\ words'[key].examples = words[key].examples
                 ELSE /\ words'[key].word_id = 0
                      /\ words'[key].frequency = {tag}
                      /\ words'[key].glossary = <<>>
                      /\ words'[key].examples = {}]_vars

\* the word map after a frequency entry met the record of a word entry that
\* has an identifier, a glossary, a news tag and an example
C28_Witness ==
    /\ pc = "convert_word_data"
    /\ count >= 2
    /\ data[count].shape = "Frequency"
    /\ data[count - 1].shape = "Word"
    /\ <<data[count].kanji, data[count].kana>> = <<data[count - 1].kanji, data[count - 1].kana>>
    /\ \E key \in DOMAIN words :
          /\ key = <<data[count].kanji, data[count].kana>>
          /\ words[key].word_id # 0
          /\ words[key].glossary # <<>>
          /\ words[key].examples # {}
          /\ Cardinality(words[key].frequency) >= 2

\* the word map after a frequency entry whose key had no record
C28_WitnessAbsent ==
    /\ pc = "convert_word_data"
    /\ count = 1
    /\ data[1].shape = "Frequency"
    /\ \E key \in DOMAIN words :
          /\ words[key].word_id = 0
          /\ words[key].glossary = <<>>

\* every entry of the list is of a shape an adapter recognizes
OnlyRecognizedEntries ==
    \A k \in 1..Len(data) : data[k].shape # "Unknown"

\* C29: on a list of recognized entries only, of any length, the kanji pass
\* and the word pass do not abort: the lists shorter than ProgressSteps, for
\* which the progress test divides by data.len() / 20, included
C29_RecognizedListsComplete ==
    OnlyRecognizedEntries => pc # "panicked"

(***************************************************************************)
(* Properties of filter_overlapping.                                       *)
(***************************************************************************)
\* the keys of words the loop has been at whose kanji-only spelling is k,
\* in the order it was at them
SeenOf(k) ==
    LET HasKey(f) == to_kanji(f) = k
    IN  SelectSeq(visited, HasKey)

\* the JLPT level number of a record, read off its tags: the lowest n of
\* its tags JLPT-Nn, if any
JlptLevel(w) ==
    Min({n \in 1..5 : JlptTag(n) \in get_all_tags(w)})

\* the minimum priority integer of the glossary of a record, if any
MinOrder(w) ==
    Min({w.glossary[k].order : k \in 1..Len(w.glossary)})

\* the values of the five criteria for a record, in their priority order
Criteria(w) ==
    <<JlptLevel(w), get_newsnk(w), Cardinality(w.examples), Len(w.glossary),
      MinOrder(w)>>

\* for the kanji-only spelling k, if the loop has been at exactly two of its
\* records: the record it was at first and its criteria, the other record
\* and its criteria, and the record out holds
CollapsedAt(k) ==
    LET seen == SeenOf(k)
    IN  IF Len(seen) # 2 THEN {}
        ELSE {[first |-> words[seen[1]], later |-> words[seen[2]],
               a |-> Criteria(words[seen[1]]), b |-> Criteria(words[seen[2]]),
               kept |-> out[k]]}

\* the same for every kanji-only spelling
Collapsed ==
    UNION {CollapsedAt(k) : k \in DOMAIN out}

\* the two records of c are equal on the first n criteria
EqualUpTo(n, c) ==
    \A x \in 1..n : c.a[x] = c.b[x]

\* x is the lower of two ranks x and y, no rank being the worst
LowerRank(x, y) ==
    /\ x # <<>>
    /\ y = <<>> \/ x[1] < y[1]

\* x is the higher of two ranks x and y, no rank being the worst
HigherRank(x, y) ==
    /\ x # <<>>
    /\ y = <<>> \/ x[1] > y[1]

\* the record kept of c is the first one if the condition holds and the
\* later one otherwise
KeptIsFirstIff(c, condition) ==
    c.kept = IF condition THEN c.first ELSE c.later

\* C11: the map filter_overlapping returns holds exactly one record for each
\* kanji-only spelling of the records it was given, and this record is equal
\* in all its fields to one of the records given with that spelling
C11_ReductionNotMerge ==
    pc = "filtered" =>
        /\ \A f \in DOMAIN words :
              Cardinality({g \in DOMAIN filtered :
                             to_kanji(filtered[g].furigana) = to_kanji(f)}) = 1
        /\ \A g \in DOMAIN filtered :
              /\ filtered[g].furigana = g
              /\ \E f \in DOMAIN words :
                    /\ to_kanji(f) = to_kanji(g)
                    /\ filtered[g] = words[f]

\* two records of one spelling were given, the loser has an example the
\* winner has not, and the map is returned
C11_Witness ==
    /\ pc = "filtered"
    /\ \E f, g \in DOMAIN words :
          /\ f # g
          /\ to_kanji(f) = to_kanji(g)
          /\ g \in DOMAIN filtered
          /\ f \notin DOMAIN filtered
          /\ words[f].examples # {}
          /\ words[g].examples = {}

C13_LowerMinOrderKept ==
    \A c \in Collapsed :
        (EqualUpTo(4, c) /\ c.a[5] # c.b[5])
            => KeptIsFirstIff(c, LowerRank(c.a[5], c.b[5]))

\* the first criterion the two records of c differ on, 6 if none
FirstDiffering(c) ==
    IF \E x \in 1..5 : c.a[x] # c.b[x]
    THEN CHOOSE x \in 1..5 : c.a[x] # c.b[x] /\ EqualUpTo(x - 1, c)
    ELSE 6

\* on criterion x alone the first record of c is the better of the two that
\* differ on it: the higher JLPT level number, the lower news rank, the more
\* examples, the more glossary entries, the higher minimum priority integer,
\* which is the way filter_overlapping compares each of them, no value being
\* the worst
FirstIsBetterOn(x, c) ==
    CASE x = 1 -> HigherRank(c.a[1], c.b[1])
      [] x = 2 -> LowerRank(c.a[2], c.b[2])
      [] x = 3 -> c.a[3] > c.b[3]
      [] x = 4 -> c.a[4] > c.b[4]
      [] x = 5 -> HigherRank(c.a[5], c.b[5])

\* C14: which of two collapsed records is kept is decided by the first of
\* the five criteria they differ on alone, whatever the later criteria are
C14_FirstDifferingCriterionDecides ==
    \A c \in Collapsed :
        FirstDiffering(c) <= 5
            => KeptIsFirstIff(c, FirstIsBetterOn(FirstDiffering(c), c))

\* C15: of two collapsed records of equal JLPT level whose minimum news ranks
\* differ the one of the lower rank is kept, a record of no news tag losing
C15_LowerNewsRankKept ==
    \A c \in Collapsed :
        (EqualUpTo(1, c) /\ c.a[2] # c.b[2])
            => KeptIsFirstIff(c, LowerRank(c.a[2], c.b[2]))

\* C16: of two collapsed records equal on JLPT level and minimum news rank
\* the one of more examples is kept, and of two that are equal on the number
\* of examples too the one of more glossary entries
C16_MoreExamplesThenMoreGlossaries ==
    \A c \in Collapsed :
        EqualUpTo(2, c)
            => /\ c.a[3] # c.b[3] => KeptIsFirstIff(c, c.a[3] > c.b[3])
               /\ (c.a[3] = c.b[3] /\ c.a[4] # c.b[4])
                    => KeptIsFirstIff(c, c.a[4] > c.b[4])

\* the record seen later was put in the place of one of as many examples and
\* fewer glossary entries
C16_Witness ==
    \E c \in Collapsed :
        /\ EqualUpTo(3, c)
        /\ c.a[4] < c.b[4]
        /\ c.kept = c.later

RecordsSeenOf(k) ==
    LET seen == SeenOf(k)
    IN  {words[seen[x]] : x \in 1..Len(seen)}

\* the records of S that no record of S would replace in a comparison of the
\* two
MaximalOf(S) ==
    {w \in S : \A v \in S : ~IsReplaced(Comparison(v, w))}

\* the five orderings of v against w are all Equal
EqualOnAllFive(v, w) ==
    Comparison(v, w) = [jlpt |-> "Equal", news |-> "Equal", example |-> "Equal",
                        len |-> "Equal", freq |-> "Equal"]

\* C30: whatever the order the loop takes the records in, the record out
\* holds for a kanji-only spelling is one no record seen of that spelling
\* would replace in a direct comparison; the records of which this is true,
\* which are those another order can keep, are equal to it on the five
\* compared values
C30_KeptIsMaximal ==
    \A k \in DOMAIN out :
        LET maximal == MaximalOf(RecordsSeenOf(k))
        IN  /\ out[k] \in maximal
            /\ \A w \in maximal : EqualOnAllFive(w, out[k])

\* three records of one spelling, and the loop has kept the second it was
\* at, which replaces the first and the third in a comparison
C30_Witness ==
    /\ pc = "filtered"
    /\ \E k \in DOMAIN out :
          LET seen == SeenOf(k)
          IN  /\ Len(seen) = 3
              /\ out[k] = words[seen[2]]
              /\ IsReplaced(Comparison(out[k], words[seen[1]]))
              /\ IsReplaced(Comparison(out[k], words[seen[3]]))

(***************************************************************************)
(* Properties of get_find_regex and get_conjugation_type.                  *)
(***************************************************************************)
\* the word of the note
NoteWord ==
    note.fields["1 Word"]

\* the word of the note without its last character
NoteStem ==
    SubStr(NoteWord, 1, Len(NoteWord))

\* the match the search for re finds in s is the whole of s
IsWholeMatch(re, s) ==
    find(re, s) = <<[start |-> 1, end |-> Len(s) + 1]>>

\* the dictionary endings of the godan verbs
GodanEndings ==
    {U.u, U.ku, U.su, U.tsu, U.nu, U.mu, U.ru, U.gu, U.dzu, U.bu}

\* the conjugation type of the note is one of the regular ones and the word
\* has a last character of the type: る for a vowel-stem verb, い for the
\* adjectives of the two い classes; the godan verbs, the な-adjectives and
\* the words that do not inflect have no such condition
IsRegularBaseForm ==
    \/ conjugation \in {"None", "NaAdjective", "Godan"}
    \/ conjugation = "Ichidan" /\ NoteWord[Len(NoteWord)] = U.ru
    \/ conjugation \in {"IAdjective", "IxAdjective"} /\ NoteWord[Len(NoteWord)] = U.i

\* C18: the pattern get_find_regex returns for a regular base form matches
\* this base form, the word of the note, as a whole
C18_PatternMatchesBaseForm ==
    (pc = "found" /\ IsRegularBaseForm) => IsWholeMatch(pattern, NoteWord)

\* C19: the pattern of the godan verb 作る matches 作る and 作った and does
\* not match 作く, and the pattern of a godan verb does not match its stem
\* followed by the dictionary ending of another godan class
C19_GodanPatternOfOwnCatalog ==
    (pc = "found" /\ conjugation = "Godan") =>
        /\ NoteWord = <<20316, U.ru>> =>
              /\ IsWholeMatch(pattern, <<20316, U.ru>>)
              /\ IsWholeMatch(pattern, <<20316, U.ltsu, U.ta>>)
              /\ find(pattern, <<20316, U.ku>>) = <<>>
        /\ \A ending \in GodanEndings \ {NoteWord[Len(NoteWord)]} :
              find(pattern, NoteStem \o <<ending>>) = <<>>

\* the conjugation type of a set of tags: that of the first test, in the
\* order adj-いx, adj-い, adj-な, v5る-i, vくる, vする-i or vする-s, a tag that
\* starts with v5, a tag that starts with v1, that a tag of the set passes
TypeOfTags(tags) ==
    IF Tag.adj_ix \in tags THEN "IxAdjective"
    ELSE IF Tag.adj_i \in tags THEN "IAdjective"
    ELSE IF Tag.adj_na \in tags THEN "NaAdjective"
    ELSE IF Tag.v5ru_i \in tags THEN "Aru"
    ELSE IF Tag.vkuru \in tags THEN "Kuru"
    ELSE IF Tag.vsuru_i \in tags \/ Tag.vsuru_s \in tags THEN "Suru"
    ELSE IF \E tag \in tags : starts_with(tag, Tag.v5) THEN "Godan"
    ELSE IF \E tag \in tags : starts_with(tag, Tag.v1) THEN "Ichidan"
    ELSE "None"

\* C20: the conjugation type of a word of an inflectable last character is
\* that of the first tag test that succeeds, whatever the order of the tags
\* of the note is; a note tagged v5る-i is of the type Aru, never Godan
C20_FirstTagTestDecides ==
    (pc # "get_find_regex" /\ NoteWord # <<>>
         /\ NoteWord[Len(NoteWord)] \in InflectableEndings) =>
        /\ conjugation = TypeOfTags(ToSet(note.tags))
        /\ AnyTagIs(note, Tag.v5ru_i) => conjugation # "Godan"

\* the note of ある is tagged v5る after which v5る-i, and it is of type Aru
C20_Witness ==
    /\ pc = "found"
    /\ NoteWord = <<U.a, U.ru>>
    /\ note.tags = <<Tag.v5ru, Tag.v5ru_i>>
    /\ conjugation = "Aru"

\* the fourteen last characters い う く す つ ぬ ふ む る ぐ ず づ ぶ ぷ
EndingsOfInflectingWords ==
    {12356, 12358, 12367, 12377, 12388, 12396, 12405, 12416, 12427, 12368,
     12378, 12389, 12406, 12407}

\* the call has ended and the last character of the word is not one of the
\* fourteen
HasOtherEnding ==
    /\ pc # "get_find_regex"
    /\ NoteWord # <<>>
    /\ NoteWord[Len(NoteWord)] \notin EndingsOfInflectingWords

\* C21: a word whose last character is not one of the fourteen endings is
\* classified as not inflecting whatever the tags of the note, and its
\* pattern is an optional space followed by the word with its brackets
\* escaped and nothing after it
C21_OtherEndingDoesNotInflect ==
    HasOtherEnding =>
        /\ pc = "found"
        /\ conjugation = "None"
        /\ pattern = <<U.space, U.question>> \o EscapeBrackets(NoteWord)
        /\ IsWholeMatch(pattern, NoteWord)
        /\ IsWholeMatch(pattern, <<U.space>> \o NoteWord)

\* 好き tagged as a godan verb and as an い-adjective
C21_Witness ==
    /\ HasOtherEnding
    /\ NoteWord = <<22909, U.ki>>
    /\ note.tags = <<Tag.v5u, Tag.adj_i>>
    /\ conjugation = "None"
    /\ pattern = <<U.space, U.question, 22909, U.ki>>

\* the regular class of the note and an ending of the word that the class
\* does not have
HasUnsupportedEnding ==
    /\ pc # "get_find_regex"
    /\ NoteWord # <<>>
    /\ \/ conjugation = "Godan" /\ NoteWord[Len(NoteWord)] \notin GodanEndings
       \/ conjugation = "Ichidan" /\ NoteWord[Len(NoteWord)] # U.ru
       \/ conjugation = "IAdjective" /\ NoteWord[Len(NoteWord)] # U.i

\* C22: a word whose last character is outside the endings of its regular
\* class (godan: う く す つ ぬ む る ぐ づ ぶ, ichidan: る, い-adjective:
\* い) makes get_find_regex fail, it returns no pattern
C22_UnsupportedEndingIsFatal ==
    HasUnsupportedEnding => pc = "panicked"

(***************************************************************************)
(* Properties of the snapshot main of bin/dictionary.rs writes.            *)
(***************************************************************************)
\* the keys of the lines of a document, in their order
KeysOf(document) ==
    [k \in 1..Len(document) |-> document[k].key]

\* C23: the runs of main over the same lexicon write the entries of the word
\* list in the same order, and those of the kanji list in the same order
C23_StableKeyOrder ==
    /\ \A x, y \in 1..Len(wordlist) : KeysOf(wordlist[x]) = KeysOf(wordlist[y])
    /\ \A x, y \in 1..Len(kanjilist) : KeysOf(kanjilist[x]) = KeysOf(kanjilist[y])

(***************************************************************************)
(* Properties of TatoebaSearchIter.                                        *)
(***************************************************************************)
\* the places of the log where a page is requested
Requests ==
    {x \in 1..Len(log) : log[x].kind = "request"}

\* the pages the responses of the log brought, in their order
FetchedPages ==
    LET IsPage(event) == event.kind = "response" /\ event.value # <<>>
        pages == SelectSeq(log, IsPage)
    IN  [k \in 1..Len(pages) |-> pages[k].value[1]]

\* the entries of a list from its last to its first
Reversed(list) ==
    [k \in 1..Len(list) |-> list[Len(list) + 1 - k]]

\* the entries of the pages fetched, page after page, each page from its
\* last entry to its first
FetchedEntries ==
    JoinAll([k \in 1..Len(FetchedPages) |-> Reversed(FetchedPages[k].data)])

\* a call of next() has returned None
NoneYielded ==
    \E k \in 1..Len(yielded) : yielded[k] = <<>>

\* C24: every request of a page, the one of from and the ones of next(),
\* comes right after a sleep of the delay of the caller when there is one,
\* and between two requests the response of the first has come
C24_SleepBeforeEachRequest ==
    \A x \in Requests :
        /\ delay # <<>> =>
              /\ x > 1
              /\ log[x - 1] = [kind |-> "sleep", value |-> <<333>>]
        /\ \A y \in Requests :
              y < x => \E z \in (y + 1)..(x - 1) : log[z].kind = "response"

\* with a delay: the sleep, the request and the response of the first page,
\* then those of the second
C24_Witness ==
    /\ delay = <<333>>
    /\ Len(log) = 6
    /\ log[4].kind = "sleep"
    /\ log[5] = [kind |-> "request", value |-> <<2>>]
    /\ log[6].kind = "response"

\* C25: what the calls of next() have returned is, entry for entry, the
\* pages fetched one after the other, each from its back: all of them once
\* the iterator has ended, and all of them but the entry popped while the
\* next page is requested; this request is made when the page has no entry
\* left, with the cursor_end of this page, and the entry popped is returned
\* whether the request fails or not
C25_YieldsPagesFromTheBack ==
    /\ pc = "next_search" =>
          /\ JoinAll(yielded) \o out = FetchedEntries
          /\ log[Len(log)].value = FetchedPages[Len(FetchedPages)].cursor_end
          /\ log[Len(log)].value # <<>>
    /\ pc = "next" =>
          /\ Len(JoinAll(yielded)) <= Len(FetchedEntries)
          /\ JoinAll(yielded) = SubSeq(FetchedEntries, 1, Len(JoinAll(yielded)))
    /\ NoneYielded => JoinAll(yielded) = FetchedEntries

\* two pages of two entries were fetched and the request of a third page
\* failed: the four entries were returned, then None
C25_Witness ==
    /\ Len(log) = 6
    /\ log[6] = [kind |-> "response", value |-> <<>>]
    /\ Len(service) = 2
    /\ yielded = <<<<12>>, <<11>>, <<22>>, <<21>>, <<>>>>

\* the service answers every request, with pages that are not empty, each
\* but the last with a cursor_end
AnswersWithFullPages ==
    /\ \A p \in 1..Len(service) :
          /\ service[p].data # <<>>
          /\ service[p].cursor_end = IF p < Len(service) THEN <<p + 1>> ELSE <<>>
    /\ \A x \in 1..Len(log) : log[x].kind = "response" => log[x].value # <<>>

\* the iterator is between two calls of next() and has ended: a call has
\* returned None, or the last request failed or brought a page of no entry
HasEnded ==
    /\ pc = "next"
    /\ \/ NoneYielded
       \/ log[Len(log)].value = <<>>
       \/ log[Len(log)].value[1].data = <<>>

\* C26: a consumer that keeps calling next() receives None in the end; when
\* the service answered with pages that are not empty, the last one with no
\* cursor_end, there was one request for each page; after a request that
\* failed, after a page of no entry, and after a call that returned None,
\* a call of next() returns None, with no sleep, no request and no error
C26_IteratorEnds ==
    /\ <>NoneYielded
    /\ []((AnswersWithFullPages /\ NoneYielded) =>
             /\ Cardinality(Requests) = Len(service)
             /\ Len(FetchedPages) = Len(service))
    /\ [][HasEnded => /\ yielded' = Append(yielded, <<>>)
                      /\ log' = log
                      /\ pc' = "next"
                      /\ failure' = failure]_vars

\* two full pages were fetched with two requests, and next() returned the
\* four entries and then None twice
C26_Witness ==
    /\ AnswersWithFullPages
    /\ Len(service) = 2
    /\ Cardinality(Requests) = 2
    /\ yielded = <<<<12>>, <<11>>, <<22>>, <<21>>, <<>>, <<>>>>

(***************************************************************************)
(* Properties of process_note.                                             *)
(***************************************************************************)
\* the larger of two numbers
Larger(x, y) ==
    IF x >= y THEN x ELSE y

\* C27: process_note makes the iterator of a configuration only while the
\* note has fewer than count examples, takes the configurations in the
\* order of the slice, pushes an example only while there are fewer than
\* count, so that there are never more than the larger of count and the
\* number the note came with, and updates the field once, as its last step,
\* with the examples it has
C27_StopsAtCount ==
    /\ [](/\ Len(examples) <= Larger(count, Len(parse_examples(note)))
          /\ started = SubSeq(search_slice, 1, Len(started))
          /\ Len(anki) = IF pc = "returned" THEN 1 ELSE 0)
    /\ [][/\ started' # started =>
                /\ Len(examples) < count
                /\ started' = Append(started, search_slice[Len(started) + 1])
          /\ examples' # examples =>
                /\ Len(examples) < count
                /\ Len(examples') = Len(examples) + 1
                /\ SubSeq(examples', 1, Len(examples)) = examples]_vars

\* the note came with one example, the first configuration gave none, the
\* second gave the second example, count is reached and the note is updated
C27_Witness ==
    /\ pc = "returned"
    /\ count = 2
    /\ Len(note.fields["4 Sentences"]) = 1
    /\ started = <<1, 2>>
    /\ Len(examples) = 2
    /\ Len(anki) = 1

=============================================================================
